---- MODULE Spec2Model ----
(***************************************************************************)
(* Model of the parameter mapping / deep-link layer                        *)
(* (utils/deeplink_mapping.py) and of the trend-signal layer (server.py)   *)
(* of the CFPB complaint proxy.                                            *)
(*                                                                         *)
(* Python values are records of one uniform shape                          *)
(*   [t, n, s, l, d]                                                       *)
(* t the Python type, n an integer payload (int value, bool as 1/0),       *)
(* s a string payload (a sequence of one-character strings), l the items   *)
(* of a list and d the entries [k, v] of a dict in insertion order.        *)
(* Mappings passed as parameter sets are sequences of entries [k, v] in    *)
(* insertion order, keys distinct.                                         *)
(***************************************************************************)
EXTENDS Integers, Sequences, FiniteSets, TLC

VARIABLES
    phase,       \* which operation ran last ("input" before any)
    today,       \* the injected "today" / the UTC date of the wall clock
    \* the link layer
    params,      \* the parameter mapping handed to the transcoder / link builder
    tab,         \* the tab argument of build_deeplink_url (NoneV when omitted)
    url_params,  \* result of api_params_to_url_params
    api_back,    \* result of url_params_to_api_params
    url,         \* result of build_deeplink_url, tokenized
    \* the signal engine
    points,             \* the (label, count) series handed to _compute_simple_signals
    baseline_window,    \* its baseline_window argument
    min_baseline_mean,  \* its min_baseline_mean argument
    signals,            \* its result
    \* series extraction
    payload,     \* the upstream JSON payload
    extracted,   \* outcome of the extraction function that ran
    \* parameter hygiene and citations
    norm_result,   \* result of normalize_api_params
    dates_result,  \* result of apply_default_dates
    prune_result,  \* result of prune_params
    context_type,  \* generate_citations: its context_type argument
    total_hits,    \* its total_hits argument
    complaint_id,  \* its complaint_id argument
    lens,          \* its lens argument
    cite_result,   \* its result
    \* the ranking tools
    company_trends,  \* the upstream trends payload fetched for each company
    top_n,           \* the top_n argument
    ranked,          \* outcome of rank_group_spikes / rank_company_spikes
    \* access control of /mcp
    CFPB_MCP_API_KEYS,          \* the environment variable, as text
    CFPB_MCP_RATE_LIMIT_RPS,    \* the environment variable, in token units per tick
    CFPB_MCP_RATE_LIMIT_BURST,  \* the environment variable, in token units
    clock,                \* time.monotonic(), in ticks
    _RATE_LIMIT_BUCKETS,  \* bucket id -> _TokenBucket
    served,               \* the requests handled so far, each with its outcome
    callers               \* the threads inside _rate_limit_allows

linkVars == <<params, tab, url_params, api_back, url>>
sigVars == <<points, baseline_window, min_baseline_mean, signals>>
extVars == <<payload, extracted>>
rankVars == <<company_trends, top_n, ranked>>

citeVars == <<context_type, total_hits, complaint_id, lens, cite_result>>
prmVars == <<norm_result, dates_result, prune_result, citeVars>>

mcpVars == <<CFPB_MCP_API_KEYS, CFPB_MCP_RATE_LIMIT_RPS, CFPB_MCP_RATE_LIMIT_BURST,
             clock, _RATE_LIMIT_BUCKETS, served, callers>>

vars == <<phase, today, linkVars, sigVars, extVars, rankVars, prmVars, mcpVars>>

----------------------------------------------------------------------------
(* Bounds *)

MaxInt == 4          \* integer pagination values range over -MaxInt..MaxInt
MaxParams == 3       \* entries of a mapping handed to the deep-link builder
MaxPoints == 4       \* points of a series handed to the signal engine
MaxBuckets == 3      \* buckets of one aggregation of an upstream payload
MaxRequests == 3     \* requests handled by the access control in one run
MaxClock == 1        \* ticks of the monotonic clock in one run
MaxCallers == 2      \* threads calling _rate_limit_allows
MaxCalls == 4        \* calls of _rate_limit_allows in one run
MaxGroups == 3       \* groups / companies of a ranking

----------------------------------------------------------------------------
(* Python values *)

NoneV == [t |-> "none", n |-> 0, s |-> <<>>, l |-> <<>>, d |-> <<>>]
IntV(i) == [t |-> "int", n |-> i, s |-> <<>>, l |-> <<>>, d |-> <<>>]
BoolV(b) == [t |-> "bool", n |-> IF b THEN 1 ELSE 0, s |-> <<>>, l |-> <<>>, d |-> <<>>]
StrV(str) == [t |-> "str", n |-> 0, s |-> str, l |-> <<>>, d |-> <<>>]
ListV(items) == [t |-> "list", n |-> 0, s |-> <<>>, l |-> items, d |-> <<>>]
\* an exception on its way out of the function that evaluates it
RaiseV == [t |-> "raise", n |-> 0, s |-> <<>>, l |-> <<>>, d |-> <<>>]
DictV(entries) == [t |-> "dict", n |-> 0, s |-> <<>>, l |-> <<>>, d |-> entries]

E(key, val) == [k |-> key, v |-> val]

\* bool(value): Python truthiness
Truthy(x) ==
    CASE x.t = "none" -> FALSE
      [] x.t = "bool" -> x.n = 1
      [] x.t = "int"  -> x.n # 0
      [] x.t = "str"  -> x.s # <<>>
      [] x.t = "list" -> x.l # <<>>
      [] x.t = "dict" -> x.d # <<>>
      [] OTHER -> TRUE

----------------------------------------------------------------------------
(* Strings: sequences of one-character strings *)

UpperChars == <<"A","B","C","D","E","F","G","H","I","J","K","L","M",
                "N","O","P","Q","R","S","T","U","V","W","X","Y","Z">>
LowerChars == <<"a","b","c","d","e","f","g","h","i","j","k","l","m",
                "n","o","p","q","r","s","t","u","v","w","x","y","z">>
DigitChars == <<"0","1","2","3","4","5","6","7","8","9">>

Spaces == {" ", "\t", "\n"}
IsSpace(c) == c \in Spaces
IsDigit(c) == \E i \in 1..10 : DigitChars[i] = c
DigitVal(c) == (CHOOSE i \in 1..10 : DigitChars[i] = c) - 1

\* str.lower() / str.upper() on one character
LowerChar(c) ==
    IF \E i \in 1..26 : UpperChars[i] = c
    THEN LowerChars[CHOOSE i \in 1..26 : UpperChars[i] = c] ELSE c
UpperChar(c) ==
    IF \E i \in 1..26 : LowerChars[i] = c
    THEN UpperChars[CHOOSE i \in 1..26 : LowerChars[i] = c] ELSE c

Lower(str) == [i \in 1..Len(str) |-> LowerChar(str[i])]

RECURSIVE LStrip(_)
LStrip(str) ==
    IF str # <<>> /\ IsSpace(Head(str)) THEN LStrip(Tail(str)) ELSE str

RECURSIVE RStrip(_)
RStrip(str) ==
    IF str # <<>> /\ IsSpace(str[Len(str)])
    THEN RStrip(SubSeq(str, 1, Len(str) - 1)) ELSE str

\* str.strip()
Strip(str) == RStrip(LStrip(str))

\* str.isdigit()
IsDigitStr(str) == str # <<>> /\ \A i \in 1..Len(str) : IsDigit(str[i])

\* int(str) for a string of decimal digits
RECURSIVE StrToInt(_)
StrToInt(str) ==
    IF str = <<>> THEN 0
    ELSE 10 * StrToInt(SubSeq(str, 1, Len(str) - 1)) + DigitVal(str[Len(str)])

\* str(int)
RECURSIVE NatToStr(_)
NatToStr(i) ==
    IF i < 10 THEN <<DigitChars[i + 1]>>
    ELSE NatToStr(i \div 10) \o <<DigitChars[(i % 10) + 1]>>
IntToStr(i) == IF i < 0 THEN <<"-">> \o NatToStr(-i) ELSE NatToStr(i)

\* Python floor division a // b, b # 0
FloorDiv(a, b) ==
    IF b > 0 THEN a \div b ELSE (-a) \div (-b)

----------------------------------------------------------------------------
(* Mappings: insertion-ordered dicts *)

Keys(m) == {m[i].k : i \in 1..Len(m)}
Has(m, key) == \E i \in 1..Len(m) : m[i].k = key
\* dict.get(key), None when absent
Get(m, key) ==
    IF Has(m, key) THEN m[CHOOSE i \in 1..Len(m) : m[i].k = key].v ELSE NoneV
\* d[key] = val: replaces in place, else appends
Put(m, key, val) ==
    IF Has(m, key)
    THEN [i \in 1..Len(m) |-> IF m[i].k = key THEN E(key, val) ELSE m[i]]
    ELSE Append(m, E(key, val))
\* d.pop(key, None)
Pop(m, key) == SelectSeq(m, LAMBDA e : e.k # key)

----------------------------------------------------------------------------
(* utils/deeplink_mapping.py *)

s_true == <<"t","r","u","e">>
s_false == <<"f","a","l","s","e">>

API_TO_URL_PARAM(key) ==
    CASE key = "search_term" -> "searchText"
      [] key = "field" -> "searchField"
      [] key = "sub_lens" -> "subLens"
      [] key = "trend_interval" -> "dateInterval"
      [] OTHER -> key

URL_TO_API_PARAM(key) ==
    CASE key = "searchText" -> "search_term"
      [] key = "searchField" -> "field"
      [] key = "subLens" -> "sub_lens"
      [] key = "dateInterval" -> "trend_interval"
      [] key = "page" -> "frm"
      [] OTHER -> key

TREND_KEYS == {"lens", "sub_lens", "trend_interval", "trend_depth",
               "sub_lens_depth", "focus", "chartType"}

RECURSIVE _clean_value(_)
RECURSIVE CleanItems(_)
\* the loop of _clean_value over the items of a list
CleanItems(items) ==
    IF items = <<>> THEN <<>>
    ELSE LET cleaned_item == _clean_value(Head(items))
         IN  IF cleaned_item.t = "none" THEN CleanItems(Tail(items))
             ELSE <<cleaned_item>> \o CleanItems(Tail(items))
\* _clean_value handing a boolean-like string back as a native boolean
_clean_value_native_bool(value) ==
    CASE value.t = "none" -> NoneV
      [] value.t = "bool" -> IF value.n = 1 THEN StrV(s_true) ELSE StrV(s_false)
      [] value.t = "str" ->
            LET cleaned == Strip(value.s)
                lowered == Lower(cleaned)
            IN  IF cleaned = <<>> THEN NoneV
                ELSE IF lowered \in {s_true, s_false}
                     THEN BoolV(lowered = s_true)
                ELSE StrV(cleaned)
      [] value.t = "list" ->
            LET cleaned_items == CleanItems(value.l)
            IN  IF cleaned_items = <<>> THEN NoneV ELSE ListV(cleaned_items)
      [] OTHER -> value

\* _clean_value without the test for a list left empty
_clean_value_keeps_empty_list(value) ==
    CASE value.t = "none" -> NoneV
      [] value.t = "bool" -> IF value.n = 1 THEN StrV(s_true) ELSE StrV(s_false)
      [] value.t = "str" ->
            LET cleaned == Strip(value.s)
                lowered == Lower(cleaned)
            IN  IF cleaned = <<>> THEN NoneV
                ELSE IF lowered \in {s_true, s_false} THEN StrV(lowered)
                ELSE StrV(cleaned)
      [] value.t = "list" -> ListV(CleanItems(value.l))
      [] OTHER -> value

_clean_value(value) ==
    CASE value.t = "none" -> NoneV
      [] value.t = "bool" -> IF value.n = 1 THEN StrV(s_true) ELSE StrV(s_false)
      [] value.t = "str" ->
            LET cleaned == Strip(value.s)
                lowered == Lower(cleaned)
            IN  IF cleaned = <<>> THEN NoneV
                ELSE IF lowered \in {s_true, s_false} THEN StrV(lowered)
                ELSE StrV(cleaned)
      [] value.t = "list" ->
            LET cleaned_items == CleanItems(value.l)
            IN  IF cleaned_items = <<>> THEN NoneV ELSE ListV(cleaned_items)
      [] OTHER -> value

\* returns None, or the int (a bool is an int in Python and is returned as is)
\* a character str.isdigit() accepts and int() rejects
NonDecimalDigits == {"²"}

\* str.isdigit()
PyIsDigit(str) ==
    str # <<>> /\ \A i \in 1..Len(str) : IsDigit(str[i]) \/ str[i] \in NonDecimalDigits

\* int(value.strip()) raises ValueError on a digit that is not decimal
_parse_int(value) ==
    CASE value.t = "none" -> NoneV
      [] value.t \in {"int", "bool"} -> value
      [] value.t = "str" /\ PyIsDigit(Strip(value.s)) ->
            IF IsDigitStr(Strip(value.s)) THEN IntV(StrToInt(Strip(value.s))) ELSE RaiseV
      [] OTHER -> NoneV

\* what a transcoder that ended in an exception hands back: no mapping, no URL
RaisedParams == <<E("", RaiseV)>>
RaisedUrl == <<"", "ValueError">>

\* the non-empty pieces of re.split(<separator run>, str)
RECURSIVE SplitTokens(_, _, _)
SplitTokens(str, seps, cur) ==
    IF str = <<>> THEN (IF cur = <<>> THEN <<>> ELSE <<cur>>)
    ELSE IF Head(str) \in seps
         THEN (IF cur = <<>> THEN <<>> ELSE <<cur>>) \o SplitTokens(Tail(str), seps, <<>>)
         ELSE SplitTokens(Tail(str), seps, Append(cur, Head(str)))

\* str.capitalize()
Capitalize(tok) ==
    [i \in 1..Len(tok) |-> IF i = 1 THEN UpperChar(tok[i]) ELSE LowerChar(tok[i])]

RECURSIVE JoinWith(_, _)
JoinWith(sep, toks) ==
    IF toks = <<>> THEN <<>>
    ELSE IF Len(toks) = 1 THEN toks[1]
    ELSE toks[1] \o sep \o JoinWith(sep, Tail(toks))

\* [\s_-] and [\s-]
IntervalSeps == Spaces \cup {"_", "-"}
LensSeps == Spaces \cup {"-"}

_format_trend_interval(value) ==
    LET cleaned == Strip(value)
        tokens == SplitTokens(cleaned, IntervalSeps, <<>>)
    IN  IF cleaned = <<>> THEN value
        ELSE JoinWith(<<" ">>, [i \in 1..Len(tokens) |-> Capitalize(tokens[i])])

\* re.sub(r"[\s-]+", "_", str): every maximal separator run becomes one "_"
RECURSIVE SubRuns(_, _)
SubRuns(str, inRun) ==
    IF str = <<>> THEN <<>>
    ELSE IF Head(str) \in LensSeps
         THEN (IF inRun THEN <<>> ELSE <<"_">>) \o SubRuns(Tail(str), TRUE)
         ELSE <<Head(str)>> \o SubRuns(Tail(str), FALSE)

_format_lens(value) ==
    LET cleaned == Strip(value)
    IN  IF cleaned = <<>> THEN value ELSE Lower(SubRuns(cleaned, FALSE))

RECURSIVE normalize_api_params(_)
normalize_api_params(api_params) ==
    IF api_params = <<>> THEN <<>>
    ELSE LET normalized == normalize_api_params(SubSeq(api_params, 1, Len(api_params) - 1))
             key == api_params[Len(api_params)].k
             c1 == _clean_value(api_params[Len(api_params)].v)
             c2 == IF key = "trend_interval" /\ c1.t = "str" THEN StrV(Lower(c1.s)) ELSE c1
             c3 == IF key \in {"lens", "sub_lens"} /\ c2.t = "str"
                   THEN StrV(_format_lens(c2.s)) ELSE c2
         IN  IF c1.t = "none" THEN normalized ELSE Put(normalized, key, c3)

\* _apply_pagination with the one-based offset forgotten: page = frm // size
_apply_pagination_zero_based(api_params, out) ==
    LET frm == _parse_int(Get(api_params, "frm"))
        size == _parse_int(Get(api_params, "size"))
    IN  IF frm.t = "raise" \/ size.t = "raise" THEN RaisedParams
        ELSE IF frm.t = "none" \/ size.t = "none" \/ size.n = 0 THEN out
        ELSE Put(out, "page", IntV(FloorDiv(frm.n, size.n)))

\* _apply_pagination that skips every size that is not positive
_apply_pagination_positive_only(api_params, out) ==
    LET frm == _parse_int(Get(api_params, "frm"))
        size == _parse_int(Get(api_params, "size"))
    IN  IF frm.t = "raise" \/ size.t = "raise" THEN RaisedParams
        ELSE IF frm.t = "none" \/ size.t = "none" \/ size.n <= 0 THEN out
        ELSE Put(out, "page", IntV(FloorDiv(frm.n, size.n) + 1))

\* mutates url_params in the source; here returns the new url_params
_apply_pagination(api_params, out) ==
    LET frm == _parse_int(Get(api_params, "frm"))
        size == _parse_int(Get(api_params, "size"))
    IN  IF frm.t = "raise" \/ size.t = "raise" THEN RaisedParams
        ELSE IF frm.t = "none" \/ size.t = "none" \/ size.n = 0 THEN out
        ELSE Put(out, "page", IntV(FloorDiv(frm.n, size.n) + 1))

\* the loop of api_params_to_url_params without the exception for frm
RECURSIVE MapEntries_copies_frm(_)
MapEntries_copies_frm(normalized) ==
    IF normalized = <<>> THEN <<>>
    ELSE LET out == MapEntries_copies_frm(SubSeq(normalized, 1, Len(normalized) - 1))
             key == normalized[Len(normalized)].k
             value == normalized[Len(normalized)].v
             mapped_key == API_TO_URL_PARAM(key)
             m1 == IF key = "trend_interval" /\ value.t = "str"
                   THEN StrV(_format_trend_interval(value.s)) ELSE value
             m2 == IF key \in {"lens", "sub_lens"} /\ m1.t = "str"
                   THEN StrV(_format_lens(m1.s)) ELSE m1
         IN  Put(out, mapped_key, m2)

\* the loop of api_params_to_url_params over the normalized entries
RECURSIVE MapEntries(_)
MapEntries(normalized) ==
    IF normalized = <<>> THEN <<>>
    ELSE LET out == MapEntries(SubSeq(normalized, 1, Len(normalized) - 1))
             key == normalized[Len(normalized)].k
             value == normalized[Len(normalized)].v
             mapped_key == API_TO_URL_PARAM(key)
             m1 == IF key = "trend_interval" /\ value.t = "str"
                   THEN StrV(_format_trend_interval(value.s)) ELSE value
             m2 == IF key \in {"lens", "sub_lens"} /\ m1.t = "str"
                   THEN StrV(_format_lens(m1.s)) ELSE m1
         IN  IF key = "frm" THEN out ELSE Put(out, mapped_key, m2)

api_params_to_url_params(api_params) ==
    LET normalized == normalize_api_params(api_params)
    IN  _apply_pagination(normalized, MapEntries(normalized))

\* the loop of url_params_to_api_params over the entries
RECURSIVE UnmapEntries(_)
UnmapEntries(inp) ==
    IF inp = <<>> THEN <<>>
    ELSE LET out == UnmapEntries(SubSeq(inp, 1, Len(inp) - 1))
             api_key == URL_TO_API_PARAM(inp[Len(inp)].k)
             c1 == _clean_value(inp[Len(inp)].v)
             c2 == IF api_key = "trend_interval" /\ c1.t = "str" THEN StrV(Lower(c1.s)) ELSE c1
             c3 == IF api_key \in {"lens", "sub_lens"} /\ c2.t = "str"
                   THEN StrV(_format_lens(c2.s)) ELSE c2
         IN  IF c1.t = "none" THEN out ELSE Put(out, api_key, c3)

url_params_to_api_params(inp) ==
    LET api_params == UnmapEntries(inp)
        page == _parse_int(Get(api_params, "frm"))
        size == _parse_int(Get(api_params, "size"))
    IN  IF Has(api_params, "frm")
        THEN IF page.t = "raise" \/ size.t = "raise" THEN RaisedParams
             ELSE IF page.t # "none" /\ Truthy(size)
             THEN Put(api_params, "frm", IntV((page.n - 1) * size.n))
             ELSE Pop(api_params, "frm")
        ELSE api_params

----------------------------------------------------------------------------
(* Default date window: datetime.date arithmetic *)

Date(y, m, d) == [y |-> y, m |-> m, d |-> d]

IsLeap(y) == (y % 4 = 0 /\ y % 100 # 0) \/ y % 400 = 0
DaysInMonth(y, m) ==
    CASE m \in {1, 3, 5, 7, 8, 10, 12} -> 31
      [] m \in {4, 6, 9, 11} -> 30
      [] OTHER -> IF IsLeap(y) THEN 29 ELSE 28

\* date - timedelta(days=1)
PrevDay(dt) ==
    IF dt.d > 1 THEN Date(dt.y, dt.m, dt.d - 1)
    ELSE IF dt.m > 1 THEN Date(dt.y, dt.m - 1, DaysInMonth(dt.y, dt.m - 1))
    ELSE Date(dt.y - 1, 12, 31)

\* date - timedelta(days=k)
RECURSIVE MinusDays(_, _)
MinusDays(dt, k) == IF k = 0 THEN dt ELSE MinusDays(PrevDay(dt), k - 1)

Pad2(i) == <<DigitChars[(i \div 10) + 1], DigitChars[(i % 10) + 1]>>
Pad4(i) == Pad2(i \div 100) \o Pad2(i % 100)
\* strftime("%Y-%m-%d")
Strftime(dt) == Pad4(dt.y) \o <<"-">> \o Pad2(dt.m) \o <<"-">> \o Pad2(dt.d)

DEFAULT_START_DATE == <<"2","0","1","1","-","1","2","-","0","1">>
UI_BASE_URL == "https://www.consumerfinance.gov/data-research/consumer-complaints/search/"

\* _default_end_date with the 30-day cutoff forgotten
_default_end_date_no_cutoff(tdy) ==
    Strftime(PrevDay(Date(tdy.y, tdy.m, 1)))

_default_end_date(tdy) ==
    LET anchor == tdy
        cutoff == MinusDays(anchor, 30)
        first_of_cutoff_month == Date(cutoff.y, cutoff.m, 1)
        end_date == PrevDay(first_of_cutoff_month)
    IN  Strftime(end_date)

apply_default_dates(api_params, tdy) ==
    LET p1 == IF ~Has(api_params, "date_received_min")
                 \/ Get(api_params, "date_received_min").t = "none"
              THEN Put(api_params, "date_received_min", StrV(DEFAULT_START_DATE))
              ELSE api_params
    IN  IF ~Has(p1, "date_received_max") \/ Get(p1, "date_received_max").t = "none"
        THEN Put(p1, "date_received_max", StrV(_default_end_date(tdy)))
        ELSE p1

----------------------------------------------------------------------------
(* urllib.parse.urlencode(query, doseq=True) *)

IsSafeChar(c) ==
    \/ \E i \in 1..26 : UpperChars[i] = c \/ LowerChars[i] = c
    \/ IsDigit(c)
    \/ c \in {"_", ".", "-", "~"}

\* quote_plus on one character
QuoteChar(c) ==
    CASE IsSafeChar(c) -> c
      [] c = " " -> "+"
      [] c = "," -> "%2C"
      [] c = "&" -> "%26"
      [] c = "=" -> "%3D"
      [] c = "'" -> "%27"
      [] c = "[" -> "%5B"
      [] c = "]" -> "%5D"
      [] c = "?" -> "%3F"
      [] c = "+" -> "%2B"
      [] c = "\t" -> "%09"
      [] c = "\n" -> "%0A"
      [] OTHER -> "%XX"

quote_plus(str) == [i \in 1..Len(str) |-> QuoteChar(str[i])]

RECURSIVE PyStr(_)
RECURSIVE PyRepr(_)
RECURSIVE ReprItems(_)
\* repr(value)
PyRepr(x) == IF x.t = "str" THEN <<"'">> \o x.s \o <<"'">> ELSE PyStr(x)
ReprItems(items) ==
    IF items = <<>> THEN <<>>
    ELSE IF Len(items) = 1 THEN PyRepr(items[1])
    ELSE PyRepr(items[1]) \o <<",", " ">> \o ReprItems(Tail(items))
\* str(value)
PyStr(x) ==
    CASE x.t = "str" -> x.s
      [] x.t = "int" -> IntToStr(x.n)
      [] x.t = "bool" -> IF x.n = 1 THEN <<"T","r","u","e">> ELSE <<"F","a","l","s","e">>
      [] x.t = "none" -> <<"N","o","n","e">>
      [] x.t = "list" -> <<"[">> \o ReprItems(x.l) \o <<"]">>
      [] OTHER -> <<"{", "}">>

\* the "k=v" pairs urlencode emits for one entry, as token lists <<k, "=", v...>>
RECURSIVE EltPairs(_, _)
EltPairs(key, items) ==
    IF items = <<>> THEN <<>>
    ELSE <<<<key, "=">> \o quote_plus(PyStr(Head(items)))>> \o EltPairs(key, Tail(items))

EntryPairs(e) ==
    CASE e.v.t = "str" -> <<<<e.k, "=">> \o quote_plus(e.v.s)>>
      [] e.v.t = "list" -> EltPairs(e.k, e.v.l)
      [] e.v.t = "dict" -> [i \in 1..Len(e.v.d) |-> <<e.k, "=", e.v.d[i].k>>]
      [] OTHER -> <<<<e.k, "=">> \o quote_plus(PyStr(e.v))>>

RECURSIVE AllPairs(_)
AllPairs(m) == IF m = <<>> THEN <<>> ELSE EntryPairs(Head(m)) \o AllPairs(Tail(m))

\* "&".join(pairs), tokenized
urlencode(m) == JoinWith(<<"&">>, AllPairs(m))

\* build_deeplink_url inferring the tab from the transcoded mapping
build_deeplink_url_infer_late(api_params, tabArg, tdy) ==
    LET params_with_dates == apply_default_dates(api_params, tdy)
        up == api_params_to_url_params(params_with_dates)
        tab1 == IF tabArg.t = "none" /\ \E key \in TREND_KEYS : Has(up, key)
                THEN StrV(<<"T","r","e","n","d","s">>) ELSE tabArg
        up1 == IF Truthy(tab1) THEN Put(up, "tab", tab1) ELSE up
    IN  IF up = RaisedParams THEN RaisedUrl
        ELSE IF up1 = <<>> THEN <<UI_BASE_URL>>
        ELSE <<UI_BASE_URL, "?">> \o urlencode(up1)

build_deeplink_url(api_params, tabArg, tdy) ==
    LET params_with_dates == apply_default_dates(api_params, tdy)
        up == api_params_to_url_params(params_with_dates)
        tab1 == IF tabArg.t = "none" /\ \E key \in TREND_KEYS : Has(api_params, key)
                THEN StrV(<<"T","r","e","n","d","s">>) ELSE tabArg
        up1 == IF Truthy(tab1) THEN Put(up, "tab", tab1) ELSE up
    IN  IF up = RaisedParams THEN RaisedUrl
        ELSE IF up1 = <<>> THEN <<UI_BASE_URL>>
        ELSE <<UI_BASE_URL, "?">> \o urlencode(up1)

----------------------------------------------------------------------------
(* server.py: build_cfpb_ui_url *)

UiFilterKeys == <<"search_term", "date_received_min", "date_received_max", "company",
                  "product", "issue", "state", "has_narrative", "company_response",
                  "company_public_response", "consumer_disputed", "tags",
                  "submitted_via", "timely", "zip_code">>
UiKwargs == {UiFilterKeys[i] : i \in 1..Len(UiFilterKeys)}
                \cup {"lens", "sub_lens", "chart_type", "date_interval"}

\* kwargs: the keyword arguments other than tab; an omitted keyword is None
build_cfpb_ui_url(kwargs, tabArg, tdy) ==
    LET a0 == [i \in 1..Len(UiFilterKeys) |-> E(UiFilterKeys[i], Get(kwargs, UiFilterKeys[i]))]
        a1 == IF Truthy(Get(kwargs, "lens")) THEN Put(a0, "lens", Get(kwargs, "lens")) ELSE a0
        a2 == IF Truthy(Get(kwargs, "sub_lens"))
              THEN Put(a1, "sub_lens", Get(kwargs, "sub_lens")) ELSE a1
        a3 == IF Truthy(Get(kwargs, "chart_type"))
              THEN Put(a2, "chartType", Get(kwargs, "chart_type")) ELSE a2
        a4 == IF Truthy(Get(kwargs, "date_interval"))
              THEN Put(a3, "trend_interval", StrV(Lower(Get(kwargs, "date_interval").s)))
              ELSE a3
    IN  build_deeplink_url(a4, tabArg, tdy)

----------------------------------------------------------------------------
(* server.py: parameter pruning *)

\* a float, by its hundredths
FloatV(h) == [t |-> "float", n |-> h, s |-> <<>>, l |-> <<>>, d |-> <<>>]

_BOOL_LITERALS == {s_true, s_false}

_normalize_scalar(value) ==
    CASE value.t = "none" -> NoneV
      [] value.t = "bool" -> IF value.n = 1 THEN StrV(s_true) ELSE StrV(s_false)
      [] value.t = "str" ->
            LET stripped == Strip(value.s)
                lowered == Lower(stripped)
            IN  IF stripped = <<>> THEN NoneV
                ELSE IF lowered \in _BOOL_LITERALS THEN StrV(lowered)
                ELSE StrV(stripped)
      [] OTHER -> value

\* values: the items of the list; None when nothing is left
_normalize_list(values) ==
    LET normalized == SelectSeq([i \in 1..Len(values) |-> _normalize_scalar(values[i])],
                                LAMBDA cleaned : cleaned.t # "none")
    IN  IF normalized = <<>> THEN NoneV ELSE ListV(normalized)

RECURSIVE PruneInto(_, _)
\* the loop of prune_params over the entries left to visit
PruneInto(cleaned, rest) ==
    IF rest = <<>> THEN cleaned
    ELSE LET value == Head(rest).v
             normalized == IF value.t = "list" THEN _normalize_list(value.l)
                           ELSE _normalize_scalar(value)
         IN  IF normalized.t = "none" THEN PruneInto(cleaned, Tail(rest))
             ELSE PruneInto(Put(cleaned, Head(rest).k, normalized), Tail(rest))

prune_params(m) == PruneInto(<<>>, m)

----------------------------------------------------------------------------
(* server.py: access control of /mcp.
   Time is counted in ticks and tokens in units of 1/TokenUnit of a token,
   so that a burst of half a token and a refill of half a token per tick
   are integers.  An environment variable that is unset or empty reads as
   0 (rate limit) or as no key (API keys). *)

TokenUnit == 2

\* a character outside ASCII
NonAscii == {"é", "�"}

IsAscii(str) == \A i \in 1..Len(str) : str[i] \notin NonAscii

\* bytes.decode('utf-8', 'replace'): an invalid byte becomes U+FFFD
DecodeReplace(bytes) ==
    [i \in 1..Len(bytes) |-> IF bytes[i] = "\\xff" THEN "�" ELSE bytes[i]]

\* the set of the configured keys
_get_allowed_api_keys(env) ==
    LET raw == Strip(env)
        parts == SplitTokens(raw, {","}, <<>>)
    IN  IF raw = <<>> THEN {}
        ELSE {Strip(parts[i]) : i \in {j \in 1..Len(parts) : Strip(parts[j]) # <<>>}}

\* hmac.compare_digest on two str: "raise" is its TypeError on a character
\* outside ASCII
compare_digest(a, b) ==
    IF ~IsAscii(a) \/ ~IsAscii(b) THEN "raise"
    ELSE IF a = b THEN "true" ELSE "false"

\* any(hmac.compare_digest(api_key, k) for k in allowed_keys), the set
\* iterated in the order given: it stops at the first match
RECURSIVE AnyMatch(_, _)
AnyMatch(api_key, order) ==
    IF order = <<>> THEN "false"
    ELSE LET c == compare_digest(api_key, Head(order))
         IN  IF c = "false" THEN AnyMatch(api_key, Tail(order)) ELSE c

\* the orders in which a set can be iterated
Orders(S) ==
    {f \in [1..Cardinality(S) -> S] : \A i, j \in 1..Cardinality(S) : f[i] = f[j] => i = j}

TokenBucket(capacity, refill_per_sec, now) ==
    [capacity |-> capacity, refill_per_sec |-> refill_per_sec,
     tokens |-> capacity, last |-> now]

Max(a, b) == IF a >= b THEN a ELSE b
Min(a, b) == IF a <= b THEN a ELSE b

\* consume that admits only when more than the amount is left
consume_strict(bucket, now) ==
    LET elapsed == Max(0, now - bucket.last)
        tokens == Min(bucket.capacity, bucket.tokens + elapsed * bucket.refill_per_sec)
        amount == TokenUnit
    IN  IF tokens > amount
        THEN [bucket |-> [bucket EXCEPT !.last = now, !.tokens = tokens - amount], ok |-> TRUE]
        ELSE [bucket |-> [bucket EXCEPT !.last = now, !.tokens = tokens], ok |-> FALSE]

\* _TokenBucket.consume(now=now): the bucket afterwards and the answer
consume(bucket, now) ==
    LET elapsed == Max(0, now - bucket.last)
        tokens == Min(bucket.capacity, bucket.tokens + elapsed * bucket.refill_per_sec)
        amount == TokenUnit
    IN  IF tokens >= amount
        THEN [bucket |-> [bucket EXCEPT !.last = now, !.tokens = tokens - amount], ok |-> TRUE]
        ELSE [bucket |-> [bucket EXCEPT !.last = now, !.tokens = tokens], ok |-> FALSE]

\* rps <= 0 or burst <= 0: _rate_limit_allows answers True at once
RateLimitOff(rps, burst) == rps <= 0 \/ burst <= 0

\* the body of `with _RATE_LIMIT_LOCK:` for a caller that read the clock as now
LockedConsume(buckets, bucket_id, now, rps, burst) ==
    LET bucket == IF Has(buckets, bucket_id)
                  THEN buckets[CHOOSE i \in 1..Len(buckets) : buckets[i].k = bucket_id].v
                  ELSE TokenBucket(burst, rps, now)
        done == consume(bucket, now)
    IN  [buckets |-> Put(buckets, bucket_id, done.bucket), ok |-> done.ok]

\* _rate_limit_allows(bucket_id) run without interruption at time now
_rate_limit_allows(buckets, bucket_id, now, rps, burst) ==
    IF RateLimitOff(rps, burst) THEN [buckets |-> buckets, ok |-> TRUE]
    ELSE LockedConsume(buckets, bucket_id, now, rps, burst)

s_x_api_key == <<"x","-","a","p","i","-","k","e","y">>

\* {k.lower(): v for (k, v) in headers}.get(b'x-api-key') or b''
HeaderValue(headers, name) ==
    LET hits == {i \in 1..Len(headers) : Lower(headers[i].name) = name}
    IN  IF hits = {} THEN <<>>
        ELSE headers[CHOOSE i \in hits : \A j \in hits : j <= i].value

\* client[0] of a non-empty client pair, else None
ClientHost(scope) == IF scope.client = <<>> THEN NoneV ELSE StrV(scope.client[1])

Outcome(status, json, forwarded, audit, bucket_id, buckets) ==
    [status |-> status, json |-> json, forwarded |-> forwarded, audit |-> audit,
     bucket_id |-> bucket_id, buckets |-> buckets]

\* MCPAccessControlMiddleware.__call__ on one scope; order is the iteration
\* order of the set of allowed keys.  status is the status the middleware
\* itself answers with, 0 when it forwards to the wrapped application and
\* 500 when it ends in an exception; audit is the status it logs.
MiddlewareCall(scope, env_keys, rps, burst, buckets, now, order) ==
    IF scope.type # "http" THEN Outcome(0, FALSE, TRUE, "none", <<>>, buckets)
    ELSE IF scope.path # "/mcp" THEN Outcome(0, FALSE, TRUE, "none", <<>>, buckets)
    ELSE
      LET api_key == Strip(DecodeReplace(HeaderValue(scope.headers, s_x_api_key)))
          allowed_keys == _get_allowed_api_keys(env_keys)
          auth_enabled == allowed_keys # {}
          ok == IF auth_enabled THEN AnyMatch(api_key, order) ELSE "true"
          client_host == ClientHost(scope)
          bucket_id == IF api_key # <<>> THEN api_key
                       ELSE <<"anon:">> \o (IF Truthy(client_host) THEN client_host.s
                                            ELSE <<"unknown">>)
          rate == _rate_limit_allows(buckets, bucket_id, now, rps, burst)
      IN  IF ok = "raise" THEN Outcome(500, FALSE, FALSE, "none", <<>>, buckets)
          ELSE IF ok = "false" THEN Outcome(401, TRUE, FALSE, "401", <<>>, buckets)
          ELSE IF ~rate.ok THEN Outcome(429, TRUE, FALSE, "429", bucket_id, rate.buckets)
          ELSE Outcome(0, FALSE, TRUE, "downstream", bucket_id, rate.buckets)

----------------------------------------------------------------------------
(* server.py: citations *)

\* the keyword names generate_citations copies into filter_params
CitationFilterKeys == {"search_term", "date_received_min", "date_received_max",
                       "company", "product", "issue", "state", "has_narrative",
                       "company_response", "company_public_response",
                       "consumer_disputed", "tags", "submitted_via", "timely",
                       "zip_code"}

\* f'{n:,}' on the digits of n
RECURSIVE GroupThousands(_)
GroupThousands(digits) ==
    IF Len(digits) <= 3 THEN digits
    ELSE GroupThousands(SubSeq(digits, 1, Len(digits) - 3))
            \o <<",">> \o SubSeq(digits, Len(digits) - 2, Len(digits))

FormatThousands(i) ==
    IF i < 0 THEN <<"-">> \o GroupThousands(NatToStr(-i)) ELSE GroupThousands(NatToStr(i))

Citation(type, link, desc) == [type |-> type, url |-> link, description |-> desc]

\* generate_citations that hands every keyword argument to the link builder
generate_citations_unfiltered(ctx, hits, cid, lensArg, kwargs, tdy) ==
    LET filter_params == kwargs
        first ==
            CASE ctx = "search" ->
                   <<Citation("search_results",
                              build_deeplink_url(filter_params, StrV(<<"L","i","s","t">>), tdy),
                              IF hits.t \in {"int", "bool"}
                              THEN <<"View all ">> \o FormatThousands(hits.n)
                                       \o <<" matching complaint(s) on CFPB.gov">>
                              ELSE <<"View these matching complaint(s) on CFPB.gov">>)>>
              [] ctx = "trends" ->
                   <<Citation("trends_chart",
                              build_deeplink_url(
                                  Put(Put(Put(filter_params, "lens",
                                              IF Truthy(lensArg) THEN lensArg
                                              ELSE StrV(<<"O","v","e","r","v","i","e","w">>)),
                                          "chartType", StrV(<<"l","i","n","e">>)),
                                      "trend_interval", StrV(<<"m","o","n","t","h">>)),
                                  StrV(<<"T","r","e","n","d","s">>), tdy),
                              <<"Interactive trends chart on CFPB.gov">>)>>
              [] ctx = "geo" ->
                   <<Citation("geographic_map",
                              build_deeplink_url(filter_params, StrV(<<"M","a","p">>), tdy),
                              <<"Interactive geographic map on CFPB.gov">>)>>
              [] ctx = "document" /\ Truthy(cid) ->
                   <<Citation("complaint_detail",
                              <<UI_BASE_URL, "?", "tab", "=", "L", "i", "s", "t">>,
                              <<"Search for complaint ">> \o PyStr(cid) \o <<" on CFPB.gov">>)>>
              [] OTHER -> <<>>
    IN  IF ctx \in {"trends", "geo"} /\ filter_params # <<>>
        THEN first \o <<Citation("search_results",
                                 build_deeplink_url(filter_params, StrV(<<"L","i","s","t">>), tdy),
                                 <<"Browse matching complaints on CFPB.gov">>)>>
        ELSE first

\* kwargs: the keyword arguments collected by **params
generate_citations(ctx, hits, cid, lensArg, kwargs, tdy) ==
    LET filter_params == SelectSeq(kwargs, LAMBDA e : e.k \in CitationFilterKeys)
        first ==
            CASE ctx = "search" ->
                   <<Citation("search_results",
                              build_deeplink_url(filter_params, StrV(<<"L","i","s","t">>), tdy),
                              IF hits.t \in {"int", "bool"}
                              THEN <<"View all ">> \o FormatThousands(hits.n)
                                       \o <<" matching complaint(s) on CFPB.gov">>
                              ELSE <<"View these matching complaint(s) on CFPB.gov">>)>>
              [] ctx = "trends" ->
                   <<Citation("trends_chart",
                              build_deeplink_url(
                                  Put(Put(Put(filter_params, "lens",
                                              IF Truthy(lensArg) THEN lensArg
                                              ELSE StrV(<<"O","v","e","r","v","i","e","w">>)),
                                          "chartType", StrV(<<"l","i","n","e">>)),
                                      "trend_interval", StrV(<<"m","o","n","t","h">>)),
                                  StrV(<<"T","r","e","n","d","s">>), tdy),
                              <<"Interactive trends chart on CFPB.gov">>)>>
              [] ctx = "geo" ->
                   <<Citation("geographic_map",
                              build_deeplink_url(filter_params, StrV(<<"M","a","p">>), tdy),
                              <<"Interactive geographic map on CFPB.gov">>)>>
              [] ctx = "document" /\ Truthy(cid) ->
                   <<Citation("complaint_detail",
                              <<UI_BASE_URL, "?", "tab", "=", "L", "i", "s", "t">>,
                              <<"Search for complaint ">> \o PyStr(cid) \o <<" on CFPB.gov">>)>>
              [] OTHER -> <<>>
    IN  IF ctx \in {"trends", "geo"} /\ filter_params # <<>>
        THEN first \o <<Citation("search_results",
                                 build_deeplink_url(filter_params, StrV(<<"L","i","s","t">>), tdy),
                                 <<"Browse matching complaints on CFPB.gov">>)>>
        ELSE first

----------------------------------------------------------------------------
(* server.py: the trend signal engine.
   Counts are integers (float(count) of a document count).  A float that
   the code derives from them is kept exact: a quotient as the pair
   num/den (den > 0), a standard deviation by its square, a z-score by its
   sign and its square.  None is the same record with null set. *)

MIN_STDDEV_SAMPLES == 2
MIN_SIGNAL_POINTS == 2
MIN_BASELINE_POINTS == 2

Null == [null |-> TRUE, sgn |-> 0, num |-> 0, den |-> 1]
\* the float num/den
Rat(a, b) == [null |-> FALSE, sgn |-> IF a > 0 THEN 1 ELSE IF a < 0 THEN -1 ELSE 0,
              num |-> a, den |-> b]
\* the float sgn * sqrt(a/b), a >= 0
Root(sg, a, b) == [null |-> FALSE, sgn |-> sg, num |-> a, den |-> b]

Point(lbl, cnt) == [label |-> lbl, count |-> cnt]

RECURSIVE Sum(_)
Sum(values) == IF values = <<>> THEN 0 ELSE Head(values) + Sum(Tail(values))
RECURSIVE SumSq(_)
SumSq(values) ==
    IF values = <<>> THEN 0 ELSE Head(values) * Head(values) + SumSq(Tail(values))

\* seq[start:stop] of Python, start and stop possibly negative
PySlice(seq, start, stop) ==
    LET len == Len(seq)
        clamp(i) == IF i < 0 THEN (IF i + len < 0 THEN 0 ELSE i + len)
                    ELSE (IF i > len THEN len ELSE i)
    IN  SubSeq(seq, clamp(start) + 1, clamp(stop))

\* sum(values) / len(values), 0.0 for no values
_mean(values) ==
    IF values # <<>> THEN Rat(Sum(values), Len(values)) ELSE Rat(0, 1)

\* sqrt(sum((x - m)^2) / (n - 1)); sum((x - m)^2) = (n * sum(x^2) - sum(x)^2) / n
_stddev(values) ==
    IF Len(values) < MIN_STDDEV_SAMPLES THEN Root(0, 0, 1)
    ELSE LET n == Len(values)
             ss == n * SumSq(values) - Sum(values) * Sum(values)
         IN  Root(IF ss > 0 THEN 1 ELSE 0, ss, n * (n - 1))

SignalKeys == {"num_points", "last_bucket", "prev_bucket", "signals"}
ErrorKeys == {"error", "num_points"}

\* a result dict of _compute_simple_signals; keys are the keys it carries
NoSignals ==
    [ keys |-> {}, error |-> "", num_points |-> 0,
      last_bucket |-> Point(<<>>, 0), prev_bucket |-> Point(<<>>, 0),
      abs |-> 0, pct |-> Null,
      baseline_window |-> 0, baseline_mean |-> Null, baseline_sd |-> Null,
      ratio |-> Null, z |-> Null, min_baseline_mean |-> 0 ]

_compute_simple_signals_unguarded(pts, bw, min_mean) ==
    IF Len(pts) < MIN_SIGNAL_POINTS
    THEN [NoSignals EXCEPT !.keys = ErrorKeys, !.error = "not_enough_points",
                           !.num_points = Len(pts)]
    ELSE LET values == [i \in 1..Len(pts) |-> pts[i].count]
             last == pts[Len(pts)]
             prev == pts[Len(pts) - 1]
             baseline_values == IF Len(values) > MIN_BASELINE_POINTS
                                THEN PySlice(values, -(bw + 1), -1) ELSE <<>>
             bmean == IF baseline_values # <<>> THEN _mean(baseline_values) ELSE Null
             bsd == IF baseline_values # <<>> THEN _stddev(baseline_values) ELSE Null
             ok == ~bmean.null /\ ~bsd.null
         IN  [ keys |-> SignalKeys, error |-> "", num_points |-> Len(pts),
               last_bucket |-> last, prev_bucket |-> prev,
               abs |-> last.count - prev.count,
               pct |-> IF prev.count > 0
                       THEN Rat(last.count - prev.count, prev.count) ELSE Null,
               baseline_window |-> bw, baseline_mean |-> bmean, baseline_sd |-> bsd,
               ratio |-> IF ok /\ bmean.num > 0
                         THEN Rat(last.count * bmean.den, bmean.num) ELSE Null,
               z |-> IF ok /\ bsd.num > 0
                     THEN LET d == last.count * bmean.den - bmean.num
                          IN  Root(IF d > 0 THEN 1 ELSE IF d < 0 THEN -1 ELSE 0,
                                   d * d * bsd.den, bmean.den * bmean.den * bsd.num)
                     ELSE Null,
               min_baseline_mean |-> min_mean ]

_compute_simple_signals_one_point(pts, bw, min_mean) ==
    IF Len(pts) < 1
    THEN [NoSignals EXCEPT !.keys = ErrorKeys, !.error = "not_enough_points",
                           !.num_points = Len(pts)]
    ELSE IF Len(pts) < 2
    THEN [NoSignals EXCEPT !.keys = {"raised"}, !.error = "IndexError"]
    ELSE _compute_simple_signals_unguarded(pts, bw, min_mean)

_compute_simple_signals(pts, bw, min_mean) ==
    IF Len(pts) < MIN_SIGNAL_POINTS
    THEN [NoSignals EXCEPT !.keys = ErrorKeys, !.error = "not_enough_points",
                           !.num_points = Len(pts)]
    ELSE LET values == [i \in 1..Len(pts) |-> pts[i].count]
             last == pts[Len(pts)]
             prev == pts[Len(pts) - 1]
             baseline_values == IF Len(values) > MIN_BASELINE_POINTS
                                THEN PySlice(values, -(bw + 1), -1) ELSE <<>>
             bmean == IF baseline_values # <<>> THEN _mean(baseline_values) ELSE Null
             bsd == IF baseline_values # <<>> THEN _stddev(baseline_values) ELSE Null
             \* baseline_mean is not None and baseline_mean >= min_baseline_mean
             \* and baseline_sd is not None
             ok == ~bmean.null /\ bmean.num >= min_mean * bmean.den /\ ~bsd.null
         IN  [ keys |-> SignalKeys, error |-> "", num_points |-> Len(pts),
               last_bucket |-> last, prev_bucket |-> prev,
               abs |-> last.count - prev.count,
               \* (last / prev) - 1.0
               pct |-> IF prev.count > 0
                       THEN Rat(last.count - prev.count, prev.count) ELSE Null,
               baseline_window |-> bw, baseline_mean |-> bmean, baseline_sd |-> bsd,
               \* last / baseline_mean
               ratio |-> IF ok /\ bmean.num > 0
                         THEN Rat(last.count * bmean.den, bmean.num) ELSE Null,
               \* (last - baseline_mean) / baseline_sd
               z |-> IF ok /\ bsd.num > 0
                     THEN LET d == last.count * bmean.den - bmean.num
                          IN  Root(IF d > 0 THEN 1 ELSE IF d < 0 THEN -1 ELSE 0,
                                   d * d * bsd.den, bmean.den * bmean.den * bsd.num)
                     ELSE Null,
               min_baseline_mean |-> min_mean ]

SigIdle ==
    /\ points = <<>>
    /\ baseline_window = 8
    /\ min_baseline_mean = 10
    /\ signals = NoSignals

----------------------------------------------------------------------------
(* server.py: series extraction from upstream payloads.
   An outcome is [raised, val]: raised when the function ends in an
   exception (AttributeError of .get on a value that is no dict), else val
   is the list it returns. *)

EmptyDict == DictV(<<>>)

Returned(v) == [raised |-> FALSE, val |-> v]
Raised == [raised |-> TRUE, val |-> <<>>]

\* x.get(key, default); an exception propagates
DictGet(x, key, default) ==
    IF x.t = "raise" THEN x
    ELSE IF x.t # "dict" THEN RaiseV
    ELSE IF Has(x.d, key) THEN Get(x.d, key) ELSE default

\* (payload or {}).get('aggregations', {}).get(k1, {}).get(k2, {}).get('buckets')
AggBuckets(pl, k1, k2) ==
    DictGet(DictGet(DictGet(DictGet(IF Truthy(pl) THEN pl ELSE EmptyDict,
                                    "aggregations", EmptyDict),
                            k1, EmptyDict),
                    k2, EmptyDict),
            "buckets", NoneV)

\* isinstance(x, int); a bool is an int
IsInt(x) == x.t \in {"int", "bool"}

\* isinstance(x, int | float)
IsNumber(x) == x.t \in {"int", "bool", "float"}

\* int(x) of a number: a float (held by its hundredths) is truncated towards zero
PyInt(x) ==
    IF x.t # "float" THEN x.n
    ELSE IF x.n >= 0 THEN x.n \div 100 ELSE -((-x.n) \div 100)

\* float(x) of a count; the float counts considered are whole numbers
PyFloat(x) == IF x.t = "float" THEN x.n \div 100 ELSE x.n

Elems(seq) == {seq[i] : i \in 1..Len(seq)}
Pairs(seq) == Elems(seq) \X Elems(seq)

\* list.sort(key=...): stable insertion of x into the sorted list srt; less is
\* the set of pairs <<a, b>> with key(a) < key(b)
InsertSorted(srt, x, less) ==
    LET later == {i \in 1..Len(srt) : <<x, srt[i]>> \in less}
        pos == IF later = {} THEN Len(srt) + 1
               ELSE CHOOSE i \in later : \A j \in later : i <= j
    IN  SubSeq(srt, 1, pos - 1) \o <<x>> \o SubSeq(srt, pos, Len(srt))

SortStable(seq, less) ==
    LET srt[i \in 0..Len(seq)] ==
            IF i = 0 THEN <<>> ELSE InsertSorted(srt[i - 1], seq[i], less)
    IN  srt[Len(seq)]

\* characters in code point order, for str < str
CharOrder == <<"\t", "\n", " ", "&", "'", "+", ",", "-", ".">> \o DigitChars
                \o <<":", "=", "?">> \o UpperChars \o <<"[", "]", "_">>
                \o LowerChars \o <<"{", "}", "~">>
Ord(c) == CHOOSE i \in 1..Len(CharOrder) : CharOrder[i] = c

RECURSIVE StrLess(_, _)
StrLess(a, b) ==
    IF b = <<>> THEN FALSE
    ELSE IF a = <<>> THEN TRUE
    ELSE IF Head(a) = Head(b) THEN StrLess(Tail(a), Tail(b))
    ELSE Ord(Head(a)) < Ord(Head(b))

ToPoints(rows) == [i \in 1..Len(rows) |-> Point(rows[i].label, rows[i].count)]

\* the loop of _extract_overall_points over the buckets
RECURSIVE OverallRows(_)
OverallRows(buckets) ==
    IF buckets = <<>> THEN <<>>
    ELSE LET b == Head(buckets)
             key == DictGet(b, "key", NoneV)
             label == DictGet(b, "key_as_string", NoneV)
             count == DictGet(b, "doc_count", NoneV)
         IN  IF b.t # "dict" \/ ~IsNumber(key) \/ label.t = "none" \/ ~IsNumber(count)
             THEN OverallRows(Tail(buckets))
             ELSE <<[key |-> PyInt(key), label |-> PyStr(label), count |-> PyFloat(count)]>>
                     \o OverallRows(Tail(buckets))

KeyLess(a, b) == a.key < b.key

_extract_overall_points(pl) ==
    LET buckets == AggBuckets(pl, "dateRangeArea", "dateRangeArea")
    IN  IF buckets.t = "raise" THEN Raised
        ELSE IF buckets.t # "list" THEN Returned(<<>>)
        ELSE LET rows == OverallRows(buckets.l)
             IN  Returned(ToPoints(
                    SortStable(rows, {p \in Pairs(rows) : KeyLess(p[1], p[2])})))

\* rows (key_num, label, count); nokey marks key_num = None
RECURSIVE _extract_points_with_key(_)
_extract_points_with_key(trend_buckets) ==
    IF trend_buckets = <<>> THEN <<>>
    ELSE LET tb == Head(trend_buckets)
             label == DictGet(tb, "key_as_string", NoneV)
             key == DictGet(tb, "key", NoneV)
             count == DictGet(tb, "doc_count", NoneV)
         IN  IF tb.t # "dict" \/ label.t = "none" \/ ~IsNumber(count)
             THEN _extract_points_with_key(Tail(trend_buckets))
             ELSE <<[nokey |-> ~IsNumber(key), key |-> IF IsNumber(key) THEN PyInt(key) ELSE 0,
                     label |-> PyStr(label), count |-> PyFloat(count)]>>
                     \o _extract_points_with_key(Tail(trend_buckets))

\* the sort key without its first component: a missing key counts as 0
NoneKeyLess_as_zero(a, b) == a.key < b.key

\* key=lambda t: (t[0] is None, t[0] if t[0] is not None else 0)
NoneKeyLess(a, b) ==
    \/ ~a.nokey /\ b.nokey
    \/ a.nokey = b.nokey /\ a.key < b.key

\* key=lambda t: t[1]
LabelLess(a, b) == StrLess(a.label, b.label)

SortPointsWithKey(pwk) ==
    IF \E i \in 1..Len(pwk) : ~pwk[i].nokey
    THEN SortStable(pwk, {p \in Pairs(pwk) : NoneKeyLess(p[1], p[2])})
    ELSE SortStable(pwk, {p \in Pairs(pwk) : LabelLess(p[1], p[2])})

\* the loop of _extract_group_series over the group buckets
RECURSIVE GroupLoop(_)
GroupLoop(group_buckets) ==
    IF group_buckets = <<>> THEN Returned(<<>>)
    ELSE LET b == Head(group_buckets)
             group_key == DictGet(b, "key", NoneV)
             doc_count == DictGet(b, "doc_count", NoneV)
             trend_buckets == DictGet(DictGet(b, "trend_period", EmptyDict), "buckets", NoneV)
             rest == GroupLoop(Tail(group_buckets))
         IN  IF b.t # "dict" THEN rest
             ELSE IF trend_buckets.t = "raise" THEN Raised
             ELSE IF group_key.t = "none" \/ trend_buckets.t # "list" THEN rest
             ELSE IF rest.raised THEN Raised
             ELSE Returned(<<[group |-> PyStr(group_key), doc_count |-> doc_count,
                              points |-> ToPoints(SortPointsWithKey(
                                            _extract_points_with_key(trend_buckets.l)))]>>
                           \o rest.val)

_extract_group_series(pl, group) ==
    LET group_buckets == AggBuckets(pl, group, group)
    IN  IF group_buckets.t = "raise" THEN Raised
        ELSE IF group_buckets.t # "list" THEN Returned(<<>>)
        ELSE GroupLoop(group_buckets.l)

\* the loop of _company_buckets_from_search over the buckets
RECURSIVE CompanyRows(_)
CompanyRows(buckets) ==
    IF buckets = <<>> THEN <<>>
    ELSE LET b == Head(buckets)
             key == DictGet(b, "key", NoneV)
             doc_count == DictGet(b, "doc_count", NoneV)
         IN  IF b.t # "dict" \/ key.t # "str" \/ ~IsInt(doc_count)
             THEN CompanyRows(Tail(buckets))
             ELSE <<[company |-> key.s, doc_count |-> doc_count.n]>>
                     \o CompanyRows(Tail(buckets))

\* key=lambda t: t[1], reverse=True
CountGreater(a, b) == a.doc_count > b.doc_count

_company_buckets_from_search(pl) ==
    LET buckets == AggBuckets(pl, "company", "company")
    IN  IF buckets.t = "raise" THEN Raised
        ELSE IF buckets.t # "list" THEN Returned(<<>>)
        ELSE LET rows == CompanyRows(buckets.l)
             IN  Returned(SortStable(rows, {p \in Pairs(rows) : CountGreater(p[1], p[2])}))

ExtIdle ==
    /\ payload = NoneV
    /\ extracted = [fn |-> "", group |-> "", out |-> Returned(<<>>)]

----------------------------------------------------------------------------
(* server.py: current-period exclusion and the ranking tools *)

\* f'{n.year:04d}-{n.month:02d}-'
_current_month_prefix(now) == Pad4(now.y) \o <<"-">> \o Pad2(now.m) \o <<"-">>

\* str.startswith
StartsWith(str, prefix) ==
    Len(str) >= Len(prefix) /\ SubSeq(str, 1, Len(prefix)) = prefix

\* _drop_current_month testing the label for equality with the prefix
_drop_current_month_exact(pts, now) ==
    SelectSeq(pts, LAMBDA pt : pt.label # _current_month_prefix(now))

_drop_current_month(pts, now) ==
    SelectSeq(pts, LAMBDA pt : ~StartsWith(pt.label, _current_month_prefix(now)))

\* a > b for two floats kept as sign and square
FloatGreater(a, b) ==
    IF a.sgn # b.sgn THEN a.sgn > b.sgn
    ELSE IF a.sgn = 1 THEN a.num * b.den > b.num * a.den
    ELSE IF a.sgn = -1 THEN a.num * b.den < b.num * a.den
    ELSE FALSE

\* the z a row is ranked by: .get('signals', {}).get('last_vs_baseline', {}).get('z')
RowZ(row) == IF "signals" \in row.computed.keys THEN row.computed.z ELSE Null

\* z or float('-inf'): a z of None and a z of 0.0 are both falsy
IsNegInf(z) == z.null \/ z.sgn = 0

\* key(a) > key(b) for key = (z is None, z or float('-inf')); True > False
RankKeyGreater(a, b) ==
    LET za == RowZ(a)
        zb == RowZ(b)
    IN  \/ za.null /\ ~zb.null
        \/ /\ za.null = zb.null
           /\ ~IsNegInf(za)
           /\ (IsNegInf(zb) \/ FloatGreater(za, zb))

\* the loop of rank_group_spikes over the extracted series
RECURSIVE ScoreGroups(_, _, _, _)
ScoreGroups(series, bw, min_mean, now) ==
    IF series = <<>> THEN <<>>
    ELSE LET sr == Head(series)
             sig == _compute_simple_signals(_drop_current_month(sr.points, now), bw, min_mean)
             rest == ScoreGroups(Tail(series), bw, min_mean, now)
         IN  IF "error" \in sig.keys THEN rest
             ELSE <<[name |-> sr.group, doc_count |-> sr.doc_count, computed |-> sig]>> \o rest

\* rank_group_spikes cutting to top_n before it ranks
rank_group_spikes_cut_first(pl, group, n, bw, min_mean, now) ==
    LET series == _extract_group_series(pl, group)
        rows == PySlice(ScoreGroups(series.val, bw, min_mean, now), 0, n)
    IN  IF series.raised THEN Raised
        ELSE Returned(SortStable(rows, {p \in Pairs(rows) : RankKeyGreater(p[1], p[2])}))

\* the tool, from the payload trends_logic returned to its 'results'
rank_group_spikes(pl, group, n, bw, min_mean, now) ==
    LET series == _extract_group_series(pl, group)
        rows == ScoreGroups(series.val, bw, min_mean, now)
        scored == SortStable(rows, {p \in Pairs(rows) : RankKeyGreater(p[1], p[2])})
    IN  IF series.raised THEN Raised
        ELSE Returned(PySlice(scored, 0, n))

\* the loop of rank_company_spikes over the top companies; fetched[i] is the
\* payload trends_logic returns for the i-th company
RECURSIVE ScoreCompanies(_, _, _, _, _)
ScoreCompanies(top, fetched, bw, min_mean, now) ==
    IF top = <<>> THEN Returned(<<>>)
    ELSE LET pts == _extract_overall_points(Head(fetched))
             rest == ScoreCompanies(Tail(top), Tail(fetched), bw, min_mean, now)
         IN  IF pts.raised \/ rest.raised THEN Raised
             ELSE Returned(
                    <<[name |-> Head(top).company, doc_count |-> IntV(Head(top).doc_count),
                       computed |-> _compute_simple_signals(
                                        _drop_current_month(pts.val, now), bw, min_mean)]>>
                    \o rest.val)

\* the tool, from the payload search_logic returned to its 'results'
rank_company_spikes(search_payload, fetched, n, bw, min_mean, now) ==
    LET companies == _company_buckets_from_search(search_payload)
        results == ScoreCompanies(PySlice(companies.val, 0, n), fetched, bw, min_mean, now)
    IN  IF companies.raised \/ results.raised THEN Raised
        ELSE Returned(SortStable(results.val,
                        {p \in Pairs(results.val) : RankKeyGreater(p[1], p[2])}))

\* the tool, from the payload trends_logic returned to its 'signals'.'overall'
get_overall_trend_signals(pl, bw, min_mean, now) ==
    LET pts == _extract_overall_points(pl)
    IN  IF pts.raised THEN Raised
        ELSE Returned(<<_compute_simple_signals(_drop_current_month(pts.val, now),
                                                bw, min_mean)>>)

RankIdle ==
    /\ company_trends = <<>>
    /\ top_n = 10
    /\ ranked = [fn |-> "", out |-> Returned(<<>>)]

McpIdle ==
    /\ CFPB_MCP_API_KEYS = <<>>
    /\ CFPB_MCP_RATE_LIMIT_RPS = 0
    /\ CFPB_MCP_RATE_LIMIT_BURST = 0
    /\ clock = 0
    /\ _RATE_LIMIT_BUCKETS = <<>>
    /\ served = <<>>
    /\ callers = <<>>

PrmIdle ==
    /\ norm_result = <<>>
    /\ dates_result = <<>>
    /\ prune_result = <<>>
    /\ context_type = ""
    /\ total_hits = NoneV
    /\ complaint_id = NoneV
    /\ lens = NoneV
    /\ cite_result = <<>>

----------------------------------------------------------------------------
(* Inputs of the link layer *)

s_TX == <<"T","X">>
s_FL == <<"F","L">>
s_ab == <<"a"," ","b">>
s_WC == <<"W","&","C">>
s_Product == <<"P","r","o","d","u","c","t">>
s_biweekly == <<"b","i","_","w","e","e","k","l","y">>
s_Month == <<"M","o","n","t","h">>
s_line == <<"l","i","n","e">>
s_List == <<"L","i","s","t">>
s_2020 == <<"2","0","2","0","-","0","1","-","0","1">>
s_2023 == <<"2","0","2","3","-","1","2","-","3","1">>

Reverse(seq) == [i \in 1..Len(seq) |-> seq[Len(seq) + 1 - i]]

\* an optional entry: absent, or key |-> one of vals
Opt(key, vals) == {<<>>} \cup {<<E(key, v)>> : v \in vals}

\* values offered for frm, size and page
PageNumVals ==
    {IntV(i) : i \in (-MaxInt)..MaxInt} \cup
    { StrV(<<"2">>), StrV(<<" ","4"," ">>), StrV(<<"0">>), StrV(<<"1","0">>),
      StrV(<<"-","2">>), StrV(<<"a","b">>), StrV(<<" ">>), StrV(<<"²">>),
      NoneV, BoolV(TRUE), ListV(<<StrV(<<"2">>)>>) }
FewVals == {IntV(3), StrV(<<"x">>)}

PagingExtras ==
    { <<>>,
      <<E("lens", StrV(s_Product))>>,
      <<E("search_term", StrV(s_ab))>>,
      <<E("state", ListV(<<StrV(s_TX), StrV(s_FL)>>))>>,
      <<E("search_term", StrV(s_ab)), E("searchText", StrV(s_TX))>>,
      <<E("trend_interval", StrV(s_biweekly)), E("sub_lens", StrV(s_Product))>> }

PagingInputs ==
    LET fwd == {f \o z \o p \o x : f \in Opt("frm", PageNumVals), z \in Opt("size", PageNumVals),
                                   p \in Opt("page", FewVals), x \in PagingExtras}
        inv == {p \o z \o f \o x : p \in Opt("page", PageNumVals), z \in Opt("size", PageNumVals),
                                   f \in Opt("frm", FewVals), x \in PagingExtras}
    IN  fwd \cup inv \cup {Reverse(m) : m \in fwd \cup inv}

Todays == {Date(2025, 12, 20), Date(2024, 3, 30), Date(2025, 1, 15)}

----------------------------------------------------------------------------
(* Specification of the pagination transcoder: forward, inverse, round trip *)

InitPaging ==
    /\ params \in PagingInputs
    /\ tab = NoneV
    /\ today = Date(2025, 12, 20)
    /\ phase = "input"
    /\ url_params = <<>>
    /\ api_back = <<>>
    /\ url = <<>>
    /\ SigIdle /\ ExtIdle /\ RankIdle /\ PrmIdle
    /\ McpIdle

\* api_params_to_url_params(params)
ApiToUrl ==
    /\ phase = "input"
    /\ LET out == api_params_to_url_params(params)
       IN  IF out = RaisedParams
           THEN url_params' = url_params /\ phase' = "forward raised"
           ELSE url_params' = out /\ phase' = "forward"
    /\ UNCHANGED <<today, params, tab, api_back, url, sigVars, extVars, rankVars, prmVars, mcpVars>>

\* url_params_to_api_params applied to the forward result
RoundTrip ==
    /\ phase = "forward"
    /\ LET out == url_params_to_api_params(url_params)
       IN  IF out = RaisedParams
           THEN api_back' = api_back /\ phase' = "roundtrip raised"
           ELSE api_back' = out /\ phase' = "roundtrip"
    /\ UNCHANGED <<today, params, tab, url_params, url, sigVars, extVars, rankVars, prmVars, mcpVars>>

\* url_params_to_api_params(params), params read as URL parameters
UrlToApi ==
    /\ phase = "input"
    /\ LET out == url_params_to_api_params(params)
       IN  IF out = RaisedParams
           THEN api_back' = api_back /\ phase' = "inverse raised"
           ELSE api_back' = out /\ phase' = "inverse"
    /\ UNCHANGED <<today, params, tab, url_params, url, sigVars, extVars, rankVars, prmVars, mcpVars>>

NextPaging == ApiToUrl \/ RoundTrip \/ UrlToApi

SpecPaging == InitPaging /\ [][NextPaging]_vars

----------------------------------------------------------------------------
(* C4: for integers frm and size with size > 0 and frm an exact multiple of
   size, and any other parameters alongside, the forward transcoding
   followed by the inverse transcoding recovers the original frm. *)
RoundTripRecoversFrm ==
    LET frm == Get(params, "frm")
        size == Get(params, "size")
    IN  (/\ phase = "roundtrip"
         /\ frm.t = "int" /\ size.t = "int"
         /\ size.n > 0
         /\ \E q \in (-MaxInt - 1)..(MaxInt + 1) : q * size.n = frm.n)
        => (Has(api_back, "frm") /\ Get(api_back, "frm") = IntV(frm.n))

\* frm=4, size=2 gives page=3 and then frm=4 again
WitRoundTrip ==
    /\ phase = "roundtrip"
    /\ Get(params, "frm") = IntV(4) /\ Get(params, "size") = IntV(2)
    /\ Get(url_params, "page") = IntV(3)
    /\ Get(api_back, "frm") = IntV(4)

----------------------------------------------------------------------------
\* a pagination value as the transcoder reads it: cleaned, then parsed
Parsed(m, key) == _parse_int(_clean_value(Get(m, key)))

(* C5: the result of url_params_to_api_params contains an frm key only when
   a page value came in and size is present and parses as a positive
   integer, and then frm = (page - 1) * size; when size is absent,
   unparseable, zero or not positive, the result contains no frm key. *)
InverseFrmOnlyForPositiveSize ==
    LET page == Parsed(params, "page")
        size == Parsed(params, "size")
        sizePositive == size.t # "none" /\ size.n > 0
    IN  phase = "inverse" =>
          /\ Has(api_back, "frm") =>
                /\ Has(params, "page") /\ page.t # "none"
                /\ sizePositive
                /\ Get(api_back, "frm") = IntV((page.n - 1) * size.n)
          /\ ~sizePositive => ~Has(api_back, "frm")

(* C6 as stated: the result of api_params_to_url_params contains a page key
   exactly when frm and size are both present and parseable as integers and
   size is not 0, and then page = (frm // size) + 1. *)
PageKeyExactlyWhenPaginated ==
    LET frm == Parsed(params, "frm")
        size == Parsed(params, "size")
        paginated == frm.t # "none" /\ size.t # "none" /\ size.n # 0
        q == Get(url_params, "page").n - 1
    IN  phase = "forward" =>
          /\ Has(url_params, "page") <=> paginated
          /\ paginated =>
                /\ Get(url_params, "page").t = "int"
                /\ IF size.n > 0
                   THEN q * size.n <= frm.n /\ frm.n < (q + 1) * size.n
                   ELSE q * size.n >= frm.n /\ frm.n > (q + 1) * size.n

(* C6 amended: when frm and size are both present and parseable as integers
   and size is not 0, the result maps page to (frm // size) + 1; in every
   other case pagination emits nothing, and the result has a page key only
   if the input itself carries a non-empty page entry, which passes through
   with its cleaned value. *)
PageKeyFromPaginationOrInput ==
    LET frm == Parsed(params, "frm")
        size == Parsed(params, "size")
        paginated == frm.t # "none" /\ size.t # "none" /\ size.n # 0
        own == _clean_value(Get(params, "page"))
        q == Get(url_params, "page").n - 1
    IN  phase = "forward" =>
          IF paginated
          THEN /\ Has(url_params, "page")
               /\ Get(url_params, "page").t = "int"
               /\ IF size.n > 0
                  THEN q * size.n <= frm.n /\ frm.n < (q + 1) * size.n
                  ELSE q * size.n >= frm.n /\ frm.n > (q + 1) * size.n
          ELSE /\ Has(url_params, "page") <=> own.t # "none"
               /\ own.t # "none" => Get(url_params, "page") = own

\* frm=-3, size=2 is floor-divided to page=-1; frm with size=0 emits nothing
WitPageKey ==
    /\ phase = "forward"
    /\ \/ /\ Get(params, "frm") = IntV(-3) /\ Get(params, "size") = IntV(2)
          /\ Get(url_params, "page") = IntV(-1)
       \/ /\ Get(params, "frm") = IntV(4) /\ Get(params, "size") = IntV(0)
          /\ ~Has(params, "page") /\ ~Has(url_params, "page")

\* the keys of the inverse rename table
InverseRenameKeys == {"searchText", "searchField", "subLens", "dateInterval", "page"}

(* C20: url_params_to_api_params never raises and passes every unknown key
   through: each input key outside the inverse rename table whose cleaned
   value is non-empty appears in the result under the same name with that
   cleaned value. *)
InverseNeverRaisesAndPassesThrough ==
    /\ phase # "inverse raised"
    /\ phase = "inverse" =>
          \A i \in 1..Len(params) :
              LET e == params[i]
              IN  (e.k \notin InverseRenameKeys /\ _clean_value(e.v).t # "none")
                  => (Has(api_back, e.k) /\ Get(api_back, e.k) = _clean_value(e.v))

\* the value the forward transcoder writes for a normalized entry
FormattedValue(key, value) ==
    IF key = "trend_interval" /\ value.t = "str" THEN StrV(_format_trend_interval(value.s))
    ELSE IF key \in {"lens", "sub_lens"} /\ value.t = "str" THEN StrV(_format_lens(value.s))
    ELSE value

\* the name the rename table of the spec gives a key
RenamedKey(key) ==
    CASE key = "search_term" -> "searchText"
      [] key = "field" -> "searchField"
      [] key = "sub_lens" -> "subLens"
      [] key = "trend_interval" -> "dateInterval"
      [] OTHER -> key

(* C24 as stated: for every normalized input entry (k, v) of
   api_params_to_url_params with k other than frm, the result maps the
   renamed key to the formatted value of v, so no such entry is lost or
   overwritten by another; and the result never contains an frm key. *)
EveryEntryRenamedAndKept ==
    phase = "forward" =>
        LET normalized == normalize_api_params(params)
        IN  /\ \A i \in 1..Len(normalized) :
                  normalized[i].k # "frm" =>
                      /\ Has(url_params, RenamedKey(normalized[i].k))
                      /\ Get(url_params, RenamedKey(normalized[i].k))
                           = FormattedValue(normalized[i].k, normalized[i].v)
            /\ ~Has(url_params, "frm")

(* C24 amended: the same for every entry whose renamed key no later entry
   is renamed to and, for the key page, when pagination computes no page;
   of two entries renamed to one key the later one is kept, and a computed
   page replaces an input page. *)
EntryRenamedUnlessSuperseded ==
    phase = "forward" =>
        LET normalized == normalize_api_params(params)
            frm == Parsed(params, "frm")
            size == Parsed(params, "size")
            paginated == frm.t # "none" /\ size.t # "none" /\ size.n # 0
            superseded(i) ==
                \/ \E j \in (i + 1)..Len(normalized) :
                      /\ normalized[j].k # "frm"
                      /\ RenamedKey(normalized[j].k) = RenamedKey(normalized[i].k)
                \/ RenamedKey(normalized[i].k) = "page" /\ paginated
        IN  /\ \A i \in 1..Len(normalized) :
                  (normalized[i].k # "frm" /\ ~superseded(i)) =>
                      /\ Has(url_params, RenamedKey(normalized[i].k))
                      /\ Get(url_params, RenamedKey(normalized[i].k))
                           = FormattedValue(normalized[i].k, normalized[i].v)
            /\ ~Has(url_params, "frm")
            /\ Keys(url_params) \subseteq
                  {RenamedKey(normalized[i].k) : i \in 1..Len(normalized)} \cup {"page"}

\* search_term and searchText together: one searchText, the later value; a
\* sub_lens arrives as subLens while frm is consumed
WitEntryRenamed ==
    /\ phase = "forward"
    /\ \/ /\ Get(params, "search_term") = StrV(s_ab)
          /\ Get(params, "searchText") = StrV(s_TX)
          /\ Has(params, "frm")
          /\ Get(url_params, "searchText") \in {StrV(s_ab), StrV(s_TX)}
       \/ /\ Has(params, "sub_lens") /\ Has(params, "frm")
          /\ Has(url_params, "subLens") /\ Has(url_params, "dateInterval")

----------------------------------------------------------------------------
(* Specification of the deep-link builder *)

LinkPool ==
    << E("state", ListV(<<StrV(s_TX), StrV(s_FL)>>)),
       E("state", ListV(<<StrV(s_TX)>>)),
       E("state", ListV(<<StrV(s_TX), StrV(<<" ">>), StrV(s_FL)>>)),
       E("company", ListV(<<StrV(s_WC), StrV(s_ab), StrV(s_TX)>>)),
       E("company", ListV(<<>>)),
       E("search_term", StrV(s_ab)),
       E("search_term", StrV(<<" ", " ">>)),
       E("lens", StrV(s_Product)),
       E("lens", StrV(<<>>)),
       E("trend_interval", StrV(s_biweekly)),
       E("trend_depth", IntV(5)),
       E("has_narrative", BoolV(TRUE)),
       E("has_narrative", StrV(<<"T","R","U","E">>)),
       E("date_received_min", StrV(s_2020)),
       E("date_received_min", StrV(<<" ">>)),
       E("date_received_max", StrV(s_2023)),
       E("date_received_max", NoneV),
       E("chart_type", StrV(s_line)),
       E("date_interval", StrV(s_Month)),
       E("frm", IntV(4)),
       E("size", IntV(2)),
       E("tab", StrV(<<"M","a","p">>)),
       E("lens", NoneV) >>

\* mappings of at most MaxParams pool entries with distinct keys, in pool
\* order or in reverse pool order
LinkInputs ==
    LET picks == UNION {{f \in [1..n -> 1..Len(LinkPool)] :
                            \A i \in 1..n, j \in 1..n :
                                i < j => (f[i] < f[j] /\ LinkPool[f[i]].k # LinkPool[f[j]].k)}
                        : n \in 0..MaxParams}
        maps == {[i \in 1..Len(f) |-> LinkPool[f[i]]] : f \in picks}
    IN  maps \cup {Reverse(m) : m \in maps}

Tabs == {NoneV, StrV(s_List), StrV(<<>>)}

InitLink ==
    /\ params \in LinkInputs
    /\ tab \in Tabs
    /\ today \in Todays
    /\ phase = "input"
    /\ url_params = <<>>
    /\ api_back = <<>>
    /\ url = <<>>
    /\ SigIdle /\ ExtIdle /\ RankIdle /\ PrmIdle
    /\ McpIdle

\* build_deeplink_url(params, tab=tab, today=today)
BuildLink ==
    /\ phase = "input"
    /\ LET out == build_deeplink_url(params, tab, today)
       IN  IF out = RaisedUrl
           THEN url' = url /\ phase' = "link raised"
           ELSE url' = out /\ phase' = "link"
    /\ UNCHANGED <<today, params, tab, url_params, api_back, sigVars, extVars, rankVars, prmVars, mcpVars>>

\* build_cfpb_ui_url(**params, tab=tab), the wall clock reading today
BuildUiUrl ==
    /\ phase = "input"
    /\ Keys(params) \subseteq UiKwargs
    /\ url' = build_cfpb_ui_url(params, tab, today)
    /\ phase' = "uilink"
    /\ UNCHANGED <<today, params, tab, url_params, api_back, sigVars, extVars, rankVars, prmVars, mcpVars>>

NextLink == BuildLink \/ BuildUiUrl

SpecLink == InitLink /\ [][NextLink]_vars

\* the "k=v" pairs of the query string of a tokenized URL
QueryPairs(u) ==
    IF Len(u) <= 2 THEN <<>> ELSE SplitTokens(SubSeq(u, 3, Len(u)), {"&"}, <<>>)
\* the values the query string carries for key, in order
QueryValues(u, key) ==
    LET ps == SelectSeq(QueryPairs(u), LAMBDA pr : pr[1] = key)
    IN  [i \in 1..Len(ps) |-> SubSeq(ps[i], 3, Len(ps[i]))]

(* C2: build_deeplink_url called with an empty mapping (or, through
   build_cfpb_ui_url, with no filter set) and no tab returns exactly the
   bare dashboard base URL, with no '?' and no query string. *)
EmptyMappingGivesBareBaseUrl ==
    (phase \in {"link", "uilink"} /\ params = <<>> /\ tab.t = "none")
        => url = <<UI_BASE_URL>>

(* C3: every sequence-valued parameter with two or more elements appears in
   the URL of build_deeplink_url under its key exactly once, its elements
   joined by commas in their original order as the single value. *)
SequenceIsOneCommaJoinedValue ==
    phase = "link" =>
        \A i \in 1..Len(params) :
            LET e == params[i]
            IN  (e.v.t = "list" /\ Len(e.v.l) >= 2 /\ _clean_value(e.v) = e.v)
                => QueryValues(url, API_TO_URL_PARAM(e.k))
                     = << quote_plus(JoinWith(<<",">>, [j \in 1..Len(e.v.l) |-> e.v.l[j].s])) >>

s_Trends == <<"T","r","e","n","d","s">>

HasTrendKey(m) == \E key \in TREND_KEYS : Has(m, key)

(* C15 as stated: build_deeplink_url adds tab=Trends when the caller
   supplied no tab and the original mapping contains a key of TREND_KEYS; it
   adds the caller's tab when one was supplied; in every other case the URL
   carries no tab parameter. *)
TabTrendsOrCallers ==
    phase = "link" =>
        \* an empty tab read as supplied, or read as not supplied
        \/ QueryValues(url, "tab") =
                IF tab.t # "none" THEN <<quote_plus(tab.s)>>
                ELSE IF HasTrendKey(params) THEN <<s_Trends>>
                ELSE <<>>
        \/ QueryValues(url, "tab") =
                IF Truthy(tab) THEN <<quote_plus(tab.s)>>
                ELSE IF HasTrendKey(params) THEN <<s_Trends>>
                ELSE <<>>

(* C15 amended: tab=Trends when the tab argument is None and the original
   mapping contains a key of TREND_KEYS; the caller's tab when it is a
   non-empty string; otherwise (no tab and no trend key, or an empty tab) the
   URL carries a tab only when the mapping itself has a tab entry, which
   passes through with its cleaned value. *)
TabTrendsCallersOrPassthrough ==
    phase = "link" =>
        QueryValues(url, "tab") =
            IF tab.t = "none" /\ HasTrendKey(params) THEN <<s_Trends>>
            ELSE IF Truthy(tab) THEN <<quote_plus(tab.s)>>
            ELSE IF Has(params, "tab") /\ _clean_value(Get(params, "tab")).t # "none"
                 THEN <<quote_plus(PyStr(_clean_value(Get(params, "tab"))))>>
            ELSE <<>>

\* the tab inferred from trend_interval alone, which transcoding renames
WitTabInferred ==
    /\ phase = "link"
    /\ tab = NoneV
    /\ Has(params, "trend_interval") /\ ~Has(params, "lens") /\ ~Has(params, "tab")
    /\ QueryValues(url, "tab") = <<s_Trends>>
    /\ QueryValues(url, "dateInterval") # <<>>

----------------------------------------------------------------------------
(* Specification of the signal engine *)

LinkIdle ==
    /\ params = <<>>
    /\ tab = NoneV
    /\ url_params = <<>>
    /\ api_back = <<>>
    /\ url = <<>>

Counts == {0, 1, 9, 12, 40}
BaselineWindows == {-2, 0, 1, 2, 8}
MinBaselineMeans == {0, 10}

\* the label of the i-th monthly bucket of 2025
MonthLabel(i) == Strftime(Date(2025, i, 1))

SeriesInputs ==
    UNION {{[i \in 1..n |-> Point(MonthLabel(i), c[i])] : c \in [1..n -> Counts]}
           : n \in 0..MaxPoints}

InitSignal ==
    /\ phase = "input"
    /\ today = Date(2026, 1, 5)
    /\ points \in SeriesInputs
    /\ baseline_window \in BaselineWindows
    /\ min_baseline_mean \in MinBaselineMeans
    /\ signals = NoSignals
    /\ LinkIdle /\ ExtIdle /\ RankIdle /\ PrmIdle
    /\ McpIdle

\* _compute_simple_signals(points, baseline_window=..., min_baseline_mean=...)
ComputeSignals ==
    /\ phase = "input"
    /\ signals' = _compute_simple_signals(points, baseline_window, min_baseline_mean)
    /\ phase' = "signals"
    /\ UNCHANGED <<today, points, baseline_window, min_baseline_mean,
                   linkVars, extVars, rankVars, prmVars, mcpVars>>

NextSignal == ComputeSignals

SpecSignal == InitSignal /\ [][NextSignal]_vars

(* C9: for every series of at least 2 points and every min_baseline_mean,
   ratio and z are both null whenever the baseline mean is null or below
   min_baseline_mean, however far last.count is above the baseline mean. *)
GuardrailNullsRatioAndZ ==
    (phase = "signals" /\ Len(points) >= 2) =>
        ((signals.baseline_mean.null
          \/ signals.baseline_mean.num < min_baseline_mean * signals.baseline_mean.den)
            => (signals.ratio.null /\ signals.z.null))

\* a baseline of mean below 10 with spread, and a last count over ten times it
WitGuardrail ==
    /\ phase = "signals"
    /\ min_baseline_mean = 10
    /\ ~signals.baseline_mean.null
    /\ signals.baseline_mean.num > 0
    /\ signals.baseline_sd.num > 0
    /\ signals.last_bucket.count * signals.baseline_mean.den > 10 * signals.baseline_mean.num
    /\ signals.ratio.null /\ signals.z.null

(* C10: for a series of fewer than 2 points the result is the error value
   {error: 'not_enough_points', num_points: n} with n the number of points,
   and nothing is raised; for 2 or more points it is a signal record with
   no error field whose num_points is the series length. *)
ErrorVariantIffFewerThanTwoPoints ==
    phase = "signals" =>
        IF Len(points) < 2
        THEN /\ signals.keys = {"error", "num_points"}
             /\ signals.error = "not_enough_points"
             /\ signals.num_points = Len(points)
        ELSE /\ signals.keys = {"num_points", "last_bucket", "prev_bucket", "signals"}
             /\ signals.num_points = Len(points)

WitErrorVariant ==
    /\ phase = "signals"
    /\ Len(points) = 1
    /\ signals.error = "not_enough_points" /\ signals.num_points = 1

----------------------------------------------------------------------------
(* Specification of series extraction *)

s_00 == <<"0","0">>
s_01 == <<"0","1">>
s_02 == <<"0","2">>
s_03 == <<"0","3">>
s_04 == <<"0","4">>
s_05 == <<"0","5">>
s_06 == <<"0","6">>
s_09 == <<"0","9">>

\* one time bucket {key, key_as_string, doc_count}
TB(key, label, count) ==
    DictV(<<E("key", key), E("key_as_string", label), E("doc_count", count)>>)

\* buckets of distinct labels: well formed (one of them with the fractional
\* key 1.7), without a numeric key, unusable
TimeBucketPool ==
    { TB(IntV(3), StrV(s_03), IntV(7)),
      TB(FloatV(170), StrV(s_06), IntV(6)),
      TB(IntV(1), StrV(s_01), IntV(0)),
      TB(IntV(2), StrV(s_02), IntV(12)),
      DictV(<<E("key_as_string", StrV(s_00)), E("doc_count", IntV(5))>>),
      TB(NoneV, StrV(s_09), IntV(9)),
      TB(StrV(<<"k">>), StrV(s_04), IntV(4)),
      TB(IntV(4), NoneV, IntV(3)),
      TB(IntV(5), StrV(s_05), StrV(<<"x">>)),
      NoneV }

\* {"aggregations": {k: {k: {"buckets": buckets}}}}
Agg(k, buckets) ==
    DictV(<<E("aggregations", DictV(<<E(k, DictV(<<E(k, DictV(<<E("buckets", buckets)>>))>>))>>))>>)

\* payloads whose nesting towards aggregations.k.k.buckets is missing, null
\* or of the wrong type at some level
Malformed(k) ==
    { NoneV, EmptyDict, IntV(0), IntV(5), BoolV(TRUE), ListV(<<>>), ListV(<<IntV(1)>>),
      StrV(<<"x">>),
      DictV(<<E("aggregations", NoneV)>>),
      DictV(<<E("aggregations", ListV(<<IntV(1)>>))>>),
      DictV(<<E("aggregations", EmptyDict)>>),
      DictV(<<E("aggregations", DictV(<<E(k, NoneV)>>))>>),
      DictV(<<E("aggregations", DictV(<<E(k, StrV(<<"x">>))>>))>>),
      DictV(<<E("aggregations", DictV(<<E(k, EmptyDict)>>))>>),
      DictV(<<E("aggregations", DictV(<<E(k, DictV(<<E(k, NoneV)>>))>>))>>),
      DictV(<<E("aggregations", DictV(<<E(k, DictV(<<E(k, EmptyDict)>>))>>))>>),
      Agg(k, NoneV), Agg(k, EmptyDict), Agg(k, StrV(<<"x">>)), Agg(k, IntV(3)) }

\* one group bucket {key, doc_count, trend_period: {buckets}}
GB(key, trend_buckets) ==
    DictV(<<E("key", key), E("doc_count", IntV(20)),
            E("trend_period", DictV(<<E("buckets", trend_buckets)>>))>>)

\* a second group bucket next to the one under study
OtherGroupBuckets ==
    { NoneV,
      GB(NoneV, ListV(<<>>)),
      GB(StrV(<<"G","2">>), NoneV),
      GB(StrV(<<"G","2">>), ListV(<<TB(IntV(1), StrV(s_01), IntV(2))>>)),
      DictV(<<E("key", StrV(<<"G","2">>)), E("doc_count", IntV(1))>>),
      DictV(<<E("key", StrV(<<"G","2">>)), E("trend_period", NoneV)>>) }

CompanyBucketPool ==
    { DictV(<<E("key", StrV(<<"A">>)), E("doc_count", IntV(5))>>),
      DictV(<<E("key", StrV(<<"B">>)), E("doc_count", IntV(9))>>),
      DictV(<<E("key", StrV(<<"C">>)), E("doc_count", IntV(5))>>),
      DictV(<<E("key", IntV(7)), E("doc_count", IntV(3))>>),
      DictV(<<E("key", StrV(<<"D">>)), E("doc_count", StrV(<<"x">>))>>),
      NoneV }

MalformedPayloads ==
    Malformed("dateRangeArea") \cup Malformed("product") \cup Malformed("company")

\* the well-formed payload shapes around a bucket list bs and a neighbour o
ShapedPayload(shape, bs, o) ==
    CASE shape = "overall" -> Agg("dateRangeArea", ListV(bs))
      [] shape = "group" -> Agg("product", ListV(<<GB(StrV(<<"G","1">>), ListV(bs))>>))
      [] shape = "group_then" ->
            Agg("product", ListV(<<GB(StrV(<<"G","1">>), ListV(bs)), o>>))
      [] shape = "then_group" -> Agg("product", ListV(<<o, GB(IntV(1), ListV(bs))>>))

Groups == {"product", "issue"}

InitExtract ==
    /\ phase = "input"
    /\ today = Date(2026, 1, 5)
    /\ \/ payload \in MalformedPayloads
       \/ \E k \in 0..MaxBuckets : \E bs \in [1..k -> TimeBucketPool] :
             \/ payload = ShapedPayload("overall", bs, NoneV)
             \/ payload = ShapedPayload("group", bs, NoneV)
             \/ \E o \in OtherGroupBuckets :
                   payload \in {ShapedPayload("group_then", bs, o),
                                ShapedPayload("then_group", bs, o)}
       \/ \E k \in 0..MaxBuckets : \E bs \in [1..k -> CompanyBucketPool] :
             payload = Agg("company", ListV(bs))
    /\ extracted = [fn |-> "", group |-> "", out |-> Returned(<<>>)]
    /\ LinkIdle /\ SigIdle /\ RankIdle /\ PrmIdle
    /\ McpIdle

\* _extract_overall_points(payload)
ExtractOverall ==
    /\ phase = "input"
    /\ extracted' = [fn |-> "_extract_overall_points", group |-> "",
                     out |-> _extract_overall_points(payload)]
    /\ phase' = "extracted"
    /\ UNCHANGED <<today, payload, linkVars, sigVars, rankVars, prmVars, mcpVars>>

\* _extract_group_series(payload, group)
ExtractGroup ==
    /\ phase = "input"
    /\ \E g \in Groups :
          extracted' = [fn |-> "_extract_group_series", group |-> g,
                        out |-> _extract_group_series(payload, g)]
    /\ phase' = "extracted"
    /\ UNCHANGED <<today, payload, linkVars, sigVars, rankVars, prmVars, mcpVars>>

\* _company_buckets_from_search(payload)
ExtractCompany ==
    /\ phase = "input"
    /\ extracted' = [fn |-> "_company_buckets_from_search", group |-> "",
                     out |-> _company_buckets_from_search(payload)]
    /\ phase' = "extracted"
    /\ UNCHANGED <<today, payload, linkVars, sigVars, rankVars, prmVars, mcpVars>>

NextExtract == ExtractOverall \/ ExtractGroup \/ ExtractCompany

SpecExtract == InitExtract /\ [][NextExtract]_vars

(* C7: the series-extraction functions never fail: for every payload in
   which a level of the expected nesting is missing, null or of the wrong
   type (a key present with a null value, a non-mapping payload) they
   return an empty result instead of raising. *)
ExtractionNeverRaises ==
    phase = "extracted" =>
        /\ ~extracted.out.raised
        /\ payload \in MalformedPayloads => extracted.out.val = <<>>

\* the time buckets of the group bucket a returned series sr came from
SourceBuckets(sr) ==
    LET gbs == AggBuckets(payload, extracted.group, extracted.group).l
        src == CHOOSE i \in 1..Len(gbs) :
                  /\ gbs[i].t = "dict"
                  /\ PyStr(DictGet(gbs[i], "key", NoneV)) = sr.group
                  /\ DictGet(gbs[i], "key", NoneV).t # "none"
    IN  DictGet(DictGet(gbs[src], "trend_period", EmptyDict), "buckets", NoneV).l

\* whether the bucket a point came from carries a numeric key, and that key
PointHasKey(sr, pt) ==
    \E i \in 1..Len(SourceBuckets(sr)) :
        LET tb == SourceBuckets(sr)[i]
        IN  tb.t = "dict" /\ DictGet(tb, "key_as_string", NoneV) = StrV(pt.label)
            /\ IsNumber(DictGet(tb, "key", NoneV))
PointKey(sr, pt) ==
    LET tbs == SourceBuckets(sr)
        i == CHOOSE j \in 1..Len(tbs) :
                tbs[j].t = "dict" /\ DictGet(tbs[j], "key_as_string", NoneV) = StrV(pt.label)
    IN  PyInt(DictGet(tbs[i], "key", NoneV))

MixedPresence(sr) ==
    /\ \E i \in 1..Len(sr.points) : PointHasKey(sr, sr.points[i])
    /\ \E i \in 1..Len(sr.points) : ~PointHasKey(sr, sr.points[i])

KeyedAscending(sr) ==
    \A i \in 1..Len(sr.points), j \in 1..Len(sr.points) :
        (i < j /\ PointHasKey(sr, sr.points[i]) /\ PointHasKey(sr, sr.points[j]))
            => PointKey(sr, sr.points[i]) <= PointKey(sr, sr.points[j])

GroupSeriesReturned ==
    phase = "extracted" /\ extracted.fn = "_extract_group_series" /\ ~extracted.out.raised

(* C8 as stated: in _extract_group_series, when the time buckets of a group
   have mixed presence of the numeric sort key, the points are ordered by
   the numeric key with every point lacking a key placed before all points
   that have one. *)
MissingKeysSortFirst ==
    GroupSeriesReturned =>
        \A g \in 1..Len(extracted.out.val) :
            LET sr == extracted.out.val[g]
            IN  MixedPresence(sr) =>
                  /\ KeyedAscending(sr)
                  /\ \A i \in 1..Len(sr.points), j \in 1..Len(sr.points) :
                        (~PointHasKey(sr, sr.points[i]) /\ PointHasKey(sr, sr.points[j]))
                            => i < j

(* C8 amended: with mixed presence the points are ordered by the numeric
   sort key key_num = int(key), every point lacking a key placed after all
   points that have one (missing keys sort last). *)
MissingKeysSortLast ==
    GroupSeriesReturned =>
        \A g \in 1..Len(extracted.out.val) :
            LET sr == extracted.out.val[g]
            IN  MixedPresence(sr) =>
                  /\ KeyedAscending(sr)
                  /\ \A i \in 1..Len(sr.points), j \in 1..Len(sr.points) :
                        (PointHasKey(sr, sr.points[i]) /\ ~PointHasKey(sr, sr.points[j]))
                            => i < j

\* buckets (no key, key 3, key 1) come out as key 1, key 3, no key
WitMissingKeys ==
    /\ GroupSeriesReturned
    /\ \E g \in 1..Len(extracted.out.val) :
          LET sr == extracted.out.val[g]
          IN  /\ Len(sr.points) = 3
              /\ sr.points[1].label = s_01 /\ sr.points[2].label = s_03
              /\ sr.points[3].label = s_00
              /\ SourceBuckets(sr)[1] = DictV(<<E("key_as_string", StrV(s_00)),
                                                E("doc_count", IntV(5))>>)

----------------------------------------------------------------------------
(* Specification of the ranking tools.  payload is what the first upstream
   call returns (trends_logic for rank_group_spikes, search_logic for
   rank_company_spikes), company_trends[i] what trends_logic returns for the
   i-th company fetched, today the date of datetime.now(UTC). *)

\* monthly counts from January 2025 on
RankSeries ==
    { <<10, 14, 30>>, <<10, 14, 12>>, <<10, 14, 5>>, <<1, 3, 40>>,
      <<12, 12, 30>>, <<20>>, <<10, 14, 30, 5>> }

SeriesBuckets(counts) ==
    ListV([i \in 1..Len(counts) |-> TB(IntV(i), StrV(MonthLabel(i)), IntV(counts[i]))])

\* the 'buckets' value of one group or one company: a series, or null
TrendBucketsPool == {SeriesBuckets(c) : c \in RankSeries} \cup {NoneV}

RankName(i) == <<"G", DigitChars[i + 1]>>

\* doc_count of the i-th company bucket of the search aggregation
CompanyVolume(i) == <<5, 9, 5, 7>>[((i - 1) % 4) + 1]

GroupPayload(bs) ==
    Agg("product", ListV([i \in 1..Len(bs) |-> GB(StrV(RankName(i)), bs[i])]))

SearchPayload(bs) ==
    Agg("company", ListV([i \in 1..Len(bs) |->
            DictV(<<E("key", StrV(RankName(i))), E("doc_count", IntV(CompanyVolume(i)))>>)]))

TopNs == {-1, 0, 2, 10}

RankTodays == {Date(2025, 4, 10), Date(2026, 1, 5)}

InitRank ==
    /\ phase = "input"
    /\ today \in RankTodays
    /\ top_n \in TopNs
    /\ baseline_window = 8
    /\ min_baseline_mean \in MinBaselineMeans
    /\ \/ /\ payload \in {NoneV, IntV(5), Agg("product", NoneV), Agg("company", NoneV)}
          /\ company_trends = <<>>
       \/ \E k \in 1..MaxGroups : \E bs \in [1..k -> TrendBucketsPool] :
             \/ /\ payload = GroupPayload(bs)
                /\ company_trends = <<>>
             \/ /\ payload = SearchPayload(bs)
                /\ company_trends = [i \in 1..k |-> Agg("dateRangeArea", bs[i])]
             \/ /\ k = 1
                /\ payload = Agg("dateRangeArea", bs[1])
                /\ company_trends = <<>>
             \/ /\ payload = SearchPayload(bs)
                /\ company_trends = [i \in 1..k |->
                                        IF i = k THEN IntV(5) ELSE Agg("dateRangeArea", bs[i])]
                /\ bs[k] = NoneV
    /\ ranked = [fn |-> "", out |-> Returned(<<>>)]
    /\ points = <<>>
    /\ signals = NoSignals
    /\ extracted = [fn |-> "", group |-> "", out |-> Returned(<<>>)]
    /\ LinkIdle /\ PrmIdle
    /\ McpIdle

\* rank_group_spikes(group='product', top_n=..., baseline_window=..., min_baseline_mean=...)
RankGroupSpikes ==
    /\ phase = "input"
    /\ ranked' = [fn |-> "rank_group_spikes",
                  out |-> rank_group_spikes(payload, "product", top_n, baseline_window,
                                            min_baseline_mean, today)]
    /\ phase' = "ranked"
    /\ UNCHANGED <<today, payload, extracted, company_trends, top_n, linkVars, sigVars, prmVars, mcpVars>>

\* rank_company_spikes(top_n=..., baseline_window=..., min_baseline_mean=...)
RankCompanySpikes ==
    /\ phase = "input"
    /\ ranked' = [fn |-> "rank_company_spikes",
                  out |-> rank_company_spikes(payload, company_trends, top_n,
                                              baseline_window, min_baseline_mean, today)]
    /\ phase' = "ranked"
    /\ UNCHANGED <<today, payload, extracted, company_trends, top_n, linkVars, sigVars, prmVars, mcpVars>>

\* get_overall_trend_signals(baseline_window=..., min_baseline_mean=...);
\* signals is what the tool returns as 'overall'
GetOverallTrendSignals ==
    /\ phase = "input"
    /\ LET out == get_overall_trend_signals(payload, baseline_window, min_baseline_mean, today)
       IN  /\ ranked' = [fn |-> "get_overall_trend_signals",
                         out |-> IF out.raised THEN Raised ELSE Returned(<<>>)]
           /\ signals' = IF out.raised THEN signals ELSE out.val[1]
    /\ phase' = "ranked"
    /\ UNCHANGED <<today, payload, extracted, company_trends, top_n, points,
                   baseline_window, min_baseline_mean, linkVars, prmVars, mcpVars>>

NextRank == RankGroupSpikes \/ RankCompanySpikes \/ GetOverallTrendSignals

SpecRank == InitRank /\ [][NextRank]_vars

(* C1: in the results of rank_group_spikes and rank_company_spikes every row
   whose last_vs_baseline.z is a number is placed before every row whose z
   is null (guardrail not satisfied, or an error row of the company
   ranking): no null-z row precedes a numeric-z row. *)
NullZRowsRankedLast ==
    (phase = "ranked" /\ ~ranked.out.raised) =>
        \A i \in 1..Len(ranked.out.val), j \in 1..Len(ranked.out.val) :
            (RowZ(ranked.out.val[i]).null /\ ~RowZ(ranked.out.val[j]).null) => j < i

(* C11: in the results of rank_group_spikes and rank_company_spikes the rows
   with a numeric z are in descending order of z among themselves: no row
   with a smaller z (z = 0 against a negative z included) precedes a row
   with a larger z. *)
NumericZDescending ==
    (phase = "ranked" /\ ~ranked.out.raised) =>
        \A i \in 1..Len(ranked.out.val), j \in 1..Len(ranked.out.val) :
            (i < j /\ ~RowZ(ranked.out.val[i]).null /\ ~RowZ(ranked.out.val[j]).null)
                => ~FloatGreater(RowZ(ranked.out.val[j]), RowZ(ranked.out.val[i]))

----------------------------------------------------------------------------
(* Specification of parameter normalization *)

\* the mappings of at most n entries of pool (a sequence of entries) with
\* distinct keys, in pool order or in reverse pool order
PoolMappings(pool, n) ==
    LET picks == UNION {{f \in [1..k -> 1..Len(pool)] :
                            \A i \in 1..k, j \in 1..k :
                                i < j => (f[i] < f[j] /\ pool[f[i]].k # pool[f[j]].k)}
                        : k \in 0..n}
        maps == {[i \in 1..Len(f) |-> pool[f[i]]] : f \in picks}
    IN  maps \cup {Reverse(m) : m \in maps}

s_TRUE == <<"T","R","U","E">>

NormPool ==
    << E("lens", StrV(<<"A"," ","B","-","c">>)),
       E("lens", StrV(<<" ">> \o s_Product \o <<" ">>)),
       E("lens", StrV(s_TRUE)),
       E("lens", StrV(<<"-"," ">>)),
       E("sub_lens", StrV(<<"S","u","b","-","\t","P">>)),
       E("sub_lens", ListV(<<StrV(<<"A"," ","B">>)>>)),
       E("trend_interval", StrV(<<" ">> \o s_Month \o <<"\n">>)),
       E("trend_interval", NoneV),
       E("has_narrative", BoolV(TRUE)),
       E("has_narrative", BoolV(FALSE)),
       E("has_narrative", StrV(s_TRUE)),
       E("has_narrative", StrV(<<" ","F","a","l","s","e"," ">>)),
       E("has_narrative", StrV(<<"y","e","s">>)),
       E("state", ListV(<<>>)),
       E("state", ListV(<<StrV(<<>>), StrV(<<" ">>)>>)),
       E("state", ListV(<<NoneV, StrV(s_TX)>>)),
       E("state", ListV(<<StrV(<<" ","t","x"," ">>), BoolV(TRUE), IntV(0)>>)),
       E("state", ListV(<<ListV(<<StrV(<<" ">>)>>), StrV(s_FL)>>)),
       E("search_term", StrV(<<>>)),
       E("search_term", StrV(<<" ","\t">>)),
       E("search_term", StrV(<<" ">> \o s_ab \o <<" ">>)),
       E("size", IntV(0)) >>

InitNormalize ==
    /\ phase = "input"
    /\ today = Date(2025, 12, 20)
    /\ params \in PoolMappings(NormPool, MaxParams)
    /\ tab = NoneV
    /\ url_params = <<>>
    /\ api_back = <<>>
    /\ url = <<>>
    /\ PrmIdle /\ SigIdle /\ ExtIdle /\ RankIdle
    /\ McpIdle

\* normalize_api_params(params)
Normalize ==
    /\ phase = "input"
    /\ norm_result' = normalize_api_params(params)
    /\ phase' = "normalized"
    /\ UNCHANGED <<today, linkVars, dates_result, prune_result, citeVars,
                   sigVars, extVars, rankVars, mcpVars>>

\* normalize_api_params applied to its own result
Renormalize ==
    /\ phase = "normalized"
    /\ norm_result' = normalize_api_params(norm_result)
    /\ phase' = "renormalized"
    /\ UNCHANGED <<today, linkVars, dates_result, prune_result, citeVars,
                   sigVars, extVars, rankVars, mcpVars>>

NextNormalize == Normalize \/ Renormalize

SpecNormalize == InitNormalize /\ [][NextNormalize]_vars

(* C12: normalize_api_params is idempotent: normalizing the mapping it
   returned gives that mapping again, for every parameter mapping (scalars,
   strings, booleans, lists, the keys trend_interval, lens and sub_lens). *)
NormalizeIdempotent ==
    [][phase = "normalized" => norm_result' = norm_result]_vars

\* a mapping the first pass changed (lens reformatted, a list purged) was
\* normalized a second time
WitNormalizeTwice ==
    /\ phase = "renormalized"
    /\ Has(params, "lens") /\ Get(params, "lens") # Get(norm_result, "lens")
    /\ Has(params, "state") /\ Has(norm_result, "state")
    /\ Get(params, "state") # Get(norm_result, "state")

\* a value normalization never leaves in a mapping
Unclean(v) ==
    \/ v.t \in {"none", "bool"}
    \/ v.t = "str" /\ Strip(v.s) = <<>>
    \/ v.t = "str" /\ Lower(v.s) \in {s_true, s_false} /\ v.s # Lower(v.s)
    \/ v.t = "list" /\ v.l = <<>>
    \/ v.t = "list" /\ \E i \in 1..Len(v.l) :
            v.l[i].t = "none" \/ (v.l[i].t = "str" /\ Strip(v.l[i].s) = <<>>)

(* C13: in every mapping normalize_api_params returns no key maps to None,
   to an empty or whitespace-only string, to an empty sequence or to a
   sequence holding None or an empty-after-trim string, and no value is a
   native boolean or a boolean-like string not in lowercase (True and
   'TRUE' both become 'true'). *)
NormalizedValuesClean ==
    phase \in {"normalized", "renormalized"} =>
        /\ \A i \in 1..Len(norm_result) : ~Unclean(norm_result[i].v)
        /\ \A i \in 1..Len(params) :
              (params[i].k = "has_narrative" /\ params[i].v \in {BoolV(TRUE), StrV(s_TRUE)})
                  => Get(norm_result, "has_narrative") = StrV(s_true)

\* a native True and a list holding None were normalized
WitNormalizedClean ==
    /\ phase = "normalized"
    /\ Has(params, "has_narrative") /\ Get(params, "has_narrative") = BoolV(TRUE)
    /\ Get(norm_result, "has_narrative") = StrV(s_true)
    /\ Has(params, "state") /\ Get(params, "state") = ListV(<<NoneV, StrV(s_TX)>>)
    /\ Get(norm_result, "state") = ListV(<<StrV(s_TX)>>)

----------------------------------------------------------------------------
(* Specification of the default date range *)

DateYears == {2000, 2024, 2025, 2100}
DateInputs ==
    {Date(y, m, d) : y \in DateYears, m \in 1..12, d \in 1..31} \ 
        {dt \in {Date(y, m, d) : y \in DateYears, m \in 1..12, d \in 29..31} :
            dt.d > DaysInMonth(dt.y, dt.m)}

DatePool ==
    << E("date_received_min", NoneV),
       E("date_received_min", StrV(s_2020)),
       E("date_received_min", StrV(<<>>)),
       E("state", ListV(<<StrV(s_TX)>>)),
       E("date_received_max", NoneV),
       E("date_received_max", StrV(s_2023)) >>

InitDates ==
    /\ phase = "input"
    /\ today \in DateInputs
    /\ params \in PoolMappings(DatePool, MaxParams)
    /\ tab = NoneV
    /\ url_params = <<>>
    /\ api_back = <<>>
    /\ url = <<>>
    /\ PrmIdle /\ SigIdle /\ ExtIdle /\ RankIdle
    /\ McpIdle

\* apply_default_dates(params, today=today)
ApplyDefaultDates ==
    /\ phase = "input"
    /\ dates_result' = apply_default_dates(params, today)
    /\ phase' = "dated"
    /\ UNCHANGED <<today, linkVars, norm_result, prune_result, citeVars,
                   sigVars, extVars, rankVars, mcpVars>>

NextDates == ApplyDefaultDates

SpecDates == InitDates /\ [][NextDates]_vars

\* a key that is absent or maps to None
Unset(m, key) == ~Has(m, key) \/ Get(m, key).t = "none"

DateBefore(a, b) ==
    \/ a.y < b.y
    \/ a.y = b.y /\ a.m < b.m
    \/ a.y = b.y /\ a.m = b.m /\ a.d < b.d

(* C14: for every today, apply_default_dates on a mapping whose
   date_received_max is absent or None sets it to the day before the first
   day of the month holding today - 30 days: the last day of a calendar
   month, more than 30 days before today (2025-12-20 gives 2025-10-31); an
   absent or None date_received_min becomes 2011-12-01. *)
DefaultDatesFilled ==
    phase = "dated" =>
        LET cutoff == MinusDays(today, 30)
            end_date == PrevDay(Date(cutoff.y, cutoff.m, 1))
        IN  /\ Unset(params, "date_received_max") =>
                /\ Get(dates_result, "date_received_max") = StrV(Strftime(end_date))
                /\ end_date.d = DaysInMonth(end_date.y, end_date.m)
                /\ DateBefore(end_date, cutoff)
                /\ today = Date(2025, 12, 20) =>
                      Get(dates_result, "date_received_max")
                          = StrV(<<"2","0","2","5","-","1","0","-","3","1">>)
            /\ Unset(params, "date_received_min") =>
                Get(dates_result, "date_received_min")
                    = StrV(<<"2","0","1","1","-","1","2","-","0","1">>)

\* both defaults filled in on 2025-12-20
WitDefaultDates ==
    /\ phase = "dated"
    /\ today = Date(2025, 12, 20)
    /\ Has(params, "date_received_max") /\ Get(params, "date_received_max") = NoneV
    /\ ~Has(params, "date_received_min")
    /\ Get(dates_result, "date_received_max")
          = StrV(<<"2","0","2","5","-","1","0","-","3","1">>)

----------------------------------------------------------------------------
(* Current-period exclusion in the signal tools (SpecRank) *)

\* 'YYYY-MM-' of today
MonthPrefix == SubSeq(Strftime(today), 1, 8)

InCurrentMonth(label) == Len(label) >= 8 /\ SubSeq(label, 1, 8) = MonthPrefix

\* the i-th smallest element of a set of numbers
RECURSIVE NthSmallest(_, _)
NthSmallest(S, i) ==
    LET least == CHOOSE x \in S : \A y \in S : x <= y
    IN  IF i = 1 THEN least ELSE NthSmallest(S \ {least}, i - 1)

\* kept is orig without the points of the current month, order preserved
IsCurrentMonthDropped(orig, kept) ==
    LET keep == {i \in 1..Len(orig) : ~InCurrentMonth(orig[i].label)}
    IN  /\ Len(kept) = Cardinality(keep)
        /\ \A j \in 1..Len(kept) : kept[j] = orig[NthSmallest(keep, j)]
        /\ \A j \in 1..Len(kept) : ~InCurrentMonth(kept[j].label)

\* the series the signals of a ranked row were computed from
RowSeries(row) ==
    IF ranked.fn = "rank_group_spikes"
    THEN LET srs == _extract_group_series(payload, "product").val
         IN  (CHOOSE sr \in Elems(srs) : sr.group = row.name).points
    ELSE LET cos == _company_buckets_from_search(payload).val
             c == CHOOSE i \in 1..Len(cos) : cos[i].company = row.name
         IN  _extract_overall_points(company_trends[c]).val

(* C16: _drop_current_month returns the points whose label does not start
   with the current UTC 'YYYY-MM-' prefix, in their original order, so the
   last_bucket reported by get_overall_trend_signals, rank_group_spikes and
   rank_company_spikes never has a label in the current month. *)
CurrentMonthExcluded ==
    (phase = "ranked" /\ ~ranked.out.raised) =>
        /\ ranked.fn = "get_overall_trend_signals" =>
              LET orig == _extract_overall_points(payload).val
                  kept == _drop_current_month(orig, today)
              IN  /\ IsCurrentMonthDropped(orig, kept)
                  /\ signals.num_points = Len(kept)
                  /\ "signals" \in signals.keys =>
                        /\ ~InCurrentMonth(signals.last_bucket.label)
                        /\ signals.last_bucket = kept[Len(kept)]
        /\ \A i \in 1..Len(ranked.out.val) :
              LET row == ranked.out.val[i]
                  orig == RowSeries(row)
                  kept == _drop_current_month(orig, today)
              IN  /\ IsCurrentMonthDropped(orig, kept)
                  /\ row.computed.num_points = Len(kept)
                  /\ "signals" \in row.computed.keys =>
                        /\ ~InCurrentMonth(row.computed.last_bucket.label)
                        /\ row.computed.last_bucket = kept[Len(kept)]

\* in April 2025 the bucket of 2025-04 is left out and March is reported last
WitCurrentMonthExcluded ==
    /\ phase = "ranked" /\ ranked.fn = "get_overall_trend_signals"
    /\ today = Date(2025, 4, 10)
    /\ Len(_extract_overall_points(payload).val) = 4
    /\ signals.num_points = 3
    /\ signals.last_bucket.label = MonthLabel(3)

----------------------------------------------------------------------------
(* Specification of the citations: generate_citations and build_cfpb_ui_url
   called with a lens *)

s_Mortgage == <<"M","o","r","t","g","a","g","e">>
s_overview == <<"o","v","e","r","v","i","e","w">>

\* keyword arguments a tool hands to generate_citations; a filter the caller
\* of the tool left out arrives as None
CitePool ==
    << E("product", ListV(<<StrV(s_Mortgage)>>)),
       E("product", NoneV),
       E("product", ListV(<<>>)),
       E("state", ListV(<<StrV(s_TX), StrV(s_FL)>>)),
       E("state", NoneV),
       E("search_term", StrV(s_ab)),
       E("search_term", NoneV),
       E("has_narrative", StrV(s_true)),
       E("date_received_min", StrV(s_2020)),
       E("field", StrV(<<"a","l","l">>)),
       E("tab", StrV(<<"M","a","p">>)),
       E("chartType", StrV(<<"b","a","r">>)) >>

ContextTypes == {"search", "trends", "geo", "suggest", "document"}
Lenses == {NoneV, StrV(<<>>), StrV(s_Product), StrV(s_overview)}

InitCite ==
    /\ params \in PoolMappings(CitePool, MaxParams)
    /\ context_type \in ContextTypes
    /\ total_hits \in {NoneV, IntV(1234)}
    /\ complaint_id \in {NoneV, StrV(<<"1","2">>)}
    /\ lens \in Lenses
    /\ today = Date(2025, 12, 20)
    /\ phase = "input"
    /\ tab = NoneV
    /\ url_params = <<>>
    /\ api_back = <<>>
    /\ url = <<>>
    /\ norm_result = <<>>
    /\ dates_result = <<>>
    /\ prune_result = <<>>
    /\ cite_result = <<>>
    /\ SigIdle /\ ExtIdle /\ RankIdle
    /\ McpIdle

\* generate_citations(context_type=..., total_hits=..., complaint_id=...,
\*                    lens=..., **params)
GenerateCitations ==
    /\ phase = "input"
    /\ cite_result' = generate_citations(context_type, total_hits, complaint_id,
                                         lens, params, today)
    /\ phase' = "cited"
    /\ UNCHANGED <<today, linkVars, norm_result, dates_result, prune_result,
                   context_type, total_hits, complaint_id, lens,
                   sigVars, extVars, rankVars, mcpVars>>

\* build_cfpb_ui_url(lens=lens, **params)
BuildUiUrlLens ==
    /\ phase = "input"
    /\ Keys(params) \subseteq UiKwargs
    /\ url' = build_cfpb_ui_url(Put(params, "lens", lens), tab, today)
    /\ phase' = "uilink"
    /\ UNCHANGED <<today, params, tab, url_params, api_back, sigVars, extVars,
                   rankVars, prmVars, mcpVars>>

NextCite == GenerateCitations \/ BuildUiUrlLens

SpecCite == InitCite /\ [][NextCite]_vars

\* an allow-listed filter of params carries a value that survives cleaning
SomeFilterValued ==
    \E i \in 1..Len(params) :
        /\ params[i].k \in CitationFilterKeys
        /\ _clean_value(params[i].v).t # "none"

\* every allow-listed filter of params is absent or None
NoFilterValued ==
    \A i \in 1..Len(params) :
        params[i].k \in CitationFilterKeys => params[i].v.t = "none"

IsListCitation(c) ==
    c.type = "search_results" /\ QueryValues(c.url, "tab") = <<s_List>>

(* C17: generate_citations for 'trends' or 'geo' returns the chart or map
   citation first and appends the search_results citation with tab=List only
   when at least one allow-listed filter carries a value; with no filter
   value the result is exactly one citation; for 'search' it is exactly one
   search_results citation. *)
SecondCitationOnlyWithFilters ==
    phase = "cited" =>
        /\ context_type = "search" =>
              Len(cite_result) = 1 /\ IsListCitation(cite_result[1])
        /\ context_type \in {"trends", "geo"} =>
              /\ Len(cite_result) \in {1, 2}
              /\ cite_result[1].type =
                     (IF context_type = "trends" THEN "trends_chart" ELSE "geographic_map")
              /\ Len(cite_result) = 2 => IsListCitation(cite_result[2])
              /\ SomeFilterValued => Len(cite_result) = 2
              /\ NoFilterValued => Len(cite_result) = 1

(* C18: the lens passed to build_cfpb_ui_url or to
   generate_citations('trends') appears in the URL unchanged, its case
   preserved. *)
LensCasePreserved ==
    (lens.t = "str" /\ lens.s # <<>>) =>
        /\ (phase = "cited" /\ context_type = "trends") =>
              QueryValues(cite_result[1].url, "lens") = <<quote_plus(lens.s)>>
        /\ phase = "uilink" =>
              QueryValues(url, "lens") = <<quote_plus(lens.s)>>

----------------------------------------------------------------------------
(* Specification of prune_params *)

PrunePool ==
    << E("a", NoneV),
       E("a", IntV(0)),
       E("a", IntV(3)),
       E("a", ListV(<<>>)),
       E("b", StrV(<<>>)),
       E("b", BoolV(FALSE)),
       E("b", ListV(<<StrV(<<>>)>>)),
       E("c", StrV(<<" ", " ">>)),
       E("c", BoolV(TRUE)),
       E("c", ListV(<<StrV(<<" ">>), NoneV>>)),
       E("d", StrV(<<"o","k">>)),
       E("d", FloatV(314)),
       E("d", ListV(<<StrV(<<"x">>), StrV(<<>>), StrV(<<"y">>)>>)),
       E("e", StrV(<<" ","O","k"," ">>)),
       E("e", StrV(s_TRUE)),
       E("e", ListV(<<IntV(0), BoolV(FALSE)>>)),
       E("f", ListV(<<StrV(<<"x">>), ListV(<<StrV(<<>>)>>)>>)),
       E("lens", StrV(s_Product)) >>

InitPrune ==
    /\ phase = "input"
    /\ params \in PoolMappings(PrunePool, MaxParams)
    /\ today = Date(2025, 12, 20)
    /\ tab = NoneV
    /\ url_params = <<>>
    /\ api_back = <<>>
    /\ url = <<>>
    /\ PrmIdle /\ SigIdle /\ ExtIdle /\ RankIdle
    /\ McpIdle

\* prune_params(params)
Prune ==
    /\ phase = "input"
    /\ prune_result' = prune_params(params)
    /\ phase' = "pruned"
    /\ UNCHANGED <<today, linkVars, norm_result, dates_result, citeVars,
                   sigVars, extVars, rankVars, mcpVars>>

\* normalize_api_params(params), the same mapping cleaned for the deep link
NormalizeSame ==
    /\ phase = "pruned"
    /\ norm_result' = normalize_api_params(params)
    /\ phase' = "pruned and normalized"
    /\ UNCHANGED <<today, linkVars, dates_result, prune_result, citeVars,
                   sigVars, extVars, rankVars, mcpVars>>

NextPrune == Prune \/ NormalizeSame

SpecPrune == InitPrune /\ [][NextPrune]_vars

\* None, or an empty or whitespace-only string
IsBlank(v) == v.t = "none" \/ (v.t = "str" /\ Strip(v.s) = <<>>)

\* what the pruning is said to remove: a blank scalar, an empty list, or a
\* list of blank items only
IsPrunable(v) ==
    \/ IsBlank(v)
    \/ v.t = "list" /\ \A i \in 1..Len(v.l) : IsBlank(v.l[i])

(* C19: prune_params leaves non-string scalars unchanged (integers, 0
   included, floats, False and True); only None, empty or whitespace-only
   strings, empty lists and empty list items are removed. *)
PruneKeepsNonStringScalars ==
    phase = "pruned" =>
        \A i \in 1..Len(params) :
            LET e == params[i]
            IN  /\ e.v.t \in {"int", "float", "bool"} =>
                      (Has(prune_result, e.k) /\ Get(prune_result, e.k) = e.v)
                /\ ~Has(prune_result, e.k) <=> IsPrunable(e.v)
                /\ (e.v.t = "list" /\ Has(prune_result, e.k)) =>
                      Len(Get(prune_result, e.k).l)
                          = Cardinality({j \in 1..Len(e.v.l) : ~IsBlank(e.v.l[j])})

----------------------------------------------------------------------------
(* Citations and the keyword arguments outside the allow-list (SpecCite) *)

AllowListed(m) == SelectSeq(m, LAMBDA e : e.k \in CitationFilterKeys)
OtherKeys(m) == Keys(m) \ CitationFilterKeys

\* the keys of the query string of a URL
QueryKeys(u) == {QueryPairs(u)[i][1] : i \in 1..Len(QueryPairs(u))}

\* the query keys a citation writes by itself
CitationOwnKeys == {"tab", "lens", "chartType", "dateInterval"}

(* C21 as stated: two calls of generate_citations that agree on
   context_type, total_hits, complaint_id, lens and every allow-listed
   filter and differ only in other keyword arguments return identical
   citation lists, and no such other key ever appears in a citation URL. *)
OtherKeysNeverInCitationUrl ==
    phase = "cited" =>
        /\ cite_result = generate_citations(context_type, total_hits, complaint_id,
                                            lens, AllowListed(params), today)
        /\ \A i \in 1..Len(cite_result) :
              QueryKeys(cite_result[i].url) \cap OtherKeys(params) = {}

(* C21 amended: the citation list is the one of the call without the other
   keyword arguments, and another key is a query key of a citation URL only
   where the citation writes that key itself (tab, lens, chartType,
   dateInterval), with the citation's value and not the caller's. *)
OtherKeysIgnoredByCitations ==
    phase = "cited" =>
        /\ cite_result = generate_citations(context_type, total_hits, complaint_id,
                                            lens, AllowListed(params), today)
        /\ \A i \in 1..Len(cite_result) :
              QueryKeys(cite_result[i].url) \cap OtherKeys(params) \subseteq CitationOwnKeys

\* a trends call with a valued filter and a caller's tab=Map: the chart keeps
\* tab=Trends, the list keeps tab=List
WitOtherKeysIgnored ==
    /\ phase = "cited" /\ context_type = "trends"
    /\ Get(params, "tab") = StrV(<<"M","a","p">>)
    /\ Get(params, "product") = ListV(<<StrV(s_Mortgage)>>)
    /\ Len(cite_result) = 2
    /\ QueryValues(cite_result[1].url, "tab") = <<s_Trends>>
    /\ QueryValues(cite_result[2].url, "tab") = <<s_List>>

----------------------------------------------------------------------------
(* Specification of the access control: requests handled one after another *)

s_k1 == <<"k","1">>
s_k2 == <<"k","2">>

\* the environment: CFPB_MCP_API_KEYS, then (rps, burst) in token units
Environments ==
    { << <<>>, 0, 0 >>,                                      \* no key, limiter off
      << <<>>, -1, 2 >>,                                     \* no key, limiter off
      << <<" ", ",", " ">>, 1, 2 >>,                         \* no key, one token
      << <<"k","1">>, 1, -2 >>,                              \* limiter off
      << <<"k","1">>, 1, 2 >>,                               \* one token
      << <<"k","1">>, 1, 3 >>,                               \* one token and a half
      << <<" ","k","1"," ",",","k","2",",">>, 1, 4 >>,       \* two tokens
      << <<"k","1",",","é">>, 2, 1 >> }                      \* half a token

Header(name, value) == [name |-> name, value |-> value]
Scope(type, path, headers, client) ==
    [type |-> type, path |-> path, headers |-> headers, client |-> client]

s_X_API_Key == <<"X","-","A","P","I","-","K","e","y">>
s_client == <<"1","0",".","0",".","0",".","1">>

Scopes ==
    { Scope("http", "/mcp", <<>>, <<s_client, "5000">>),
      Scope("http", "/mcp", <<Header(s_X_API_Key, s_k1)>>, <<s_client, "5000">>),
      Scope("http", "/mcp", <<Header(s_x_api_key, <<" ","k","2"," ">>)>>, <<>>),
      Scope("http", "/mcp", <<Header(s_X_API_Key, <<"b","a","d">>)>>, <<>>),
      Scope("http", "/mcp", <<Header(s_X_API_Key, <<"\\xff">>)>>, <<>>),
      Scope("http", "/docs", <<>>, <<>>),
      Scope("websocket", "/mcp", <<>>, <<>>) }

InitAccess ==
    /\ phase = "serving"
    /\ today = Date(2025, 12, 20)
    /\ \E env \in Environments :
          /\ CFPB_MCP_API_KEYS = env[1]
          /\ CFPB_MCP_RATE_LIMIT_RPS = env[2]
          /\ CFPB_MCP_RATE_LIMIT_BURST = env[3]
    /\ clock = 0
    /\ _RATE_LIMIT_BUCKETS = <<>>
    /\ served = <<>>
    /\ callers = <<>>
    /\ LinkIdle /\ SigIdle /\ ExtIdle /\ RankIdle /\ PrmIdle

\* one request goes through MCPAccessControlMiddleware.__call__
HandleRequest ==
    /\ phase = "serving"
    /\ Len(served) < MaxRequests
    /\ \E scope \in Scopes, order \in Orders(_get_allowed_api_keys(CFPB_MCP_API_KEYS)) :
          LET out == MiddlewareCall(scope, CFPB_MCP_API_KEYS, CFPB_MCP_RATE_LIMIT_RPS,
                                    CFPB_MCP_RATE_LIMIT_BURST, _RATE_LIMIT_BUCKETS,
                                    clock, order)
          IN  /\ _RATE_LIMIT_BUCKETS' = out.buckets
              /\ served' = Append(served, [scope |-> scope, at |-> clock,
                                           status |-> out.status, json |-> out.json,
                                           forwarded |-> out.forwarded,
                                           audit |-> out.audit,
                                           bucket_id |-> out.bucket_id])
    /\ UNCHANGED <<phase, today, linkVars, sigVars, extVars, rankVars, prmVars,
                   CFPB_MCP_API_KEYS, CFPB_MCP_RATE_LIMIT_RPS, CFPB_MCP_RATE_LIMIT_BURST,
                   clock, callers>>

\* the monotonic clock advances
Tick ==
    /\ phase \in {"serving", "calling"}
    /\ clock < MaxClock
    /\ clock' = clock + 1
    /\ UNCHANGED <<phase, today, linkVars, sigVars, extVars, rankVars, prmVars,
                   CFPB_MCP_API_KEYS, CFPB_MCP_RATE_LIMIT_RPS, CFPB_MCP_RATE_LIMIT_BURST,
                   _RATE_LIMIT_BUCKETS, served, callers>>

NextAccess == HandleRequest \/ Tick

SpecAccess == InitAccess /\ [][NextAccess]_vars

\* the API key a request carries, as the client sent it
SentKey(scope) == Strip(DecodeReplace(HeaderValue(scope.headers, s_x_api_key)))

Guarded(scope) == scope.type = "http" /\ scope.path = "/mcp"

(* C22: when at least one API key is configured, every HTTP request to /mcp
   whose X-API-Key header is missing or equals none of the configured keys
   is answered with status 401 and a JSON body and is never forwarded to
   the wrapped application; a request carrying a configured key is never
   answered 401 by the middleware. *)
UnknownKeyAnswered401 ==
    LET allowed == _get_allowed_api_keys(CFPB_MCP_API_KEYS)
    IN  allowed # {} =>
          \A i \in 1..Len(served) :
              LET r == served[i]
              IN  Guarded(r.scope) =>
                    IF SentKey(r.scope) \in allowed
                    THEN r.status # 401
                    ELSE r.status = 401 /\ r.json /\ ~r.forwarded

\* the requests among the first i that reached the rate limiter with the
\* bucket id of the i-th
SameBucketUpTo(i) ==
    {j \in 1..i : served[j].bucket_id = served[i].bucket_id}

(* C23: with rate limiting enabled (rps > 0 and burst > 0), for one bucket
   id with burst B and no refill between the requests, the first B
   sequential requests to /mcp are admitted and the next one is answered
   with status 429 without being forwarded; with rps <= 0 or burst <= 0
   every request is admitted. *)
BurstAdmittedThen429 ==
    /\ RateLimitOff(CFPB_MCP_RATE_LIMIT_RPS, CFPB_MCP_RATE_LIMIT_BURST) =>
          \A i \in 1..Len(served) : served[i].status # 429
    /\ ~RateLimitOff(CFPB_MCP_RATE_LIMIT_RPS, CFPB_MCP_RATE_LIMIT_BURST) =>
          \A i \in 1..Len(served) :
              LET r == served[i]
                  mine == SameBucketUpTo(i)
              IN  (r.bucket_id # <<>> /\ \A j \in mine : served[j].at = r.at) =>
                    IF Cardinality(mine) * TokenUnit <= CFPB_MCP_RATE_LIMIT_BURST
                    THEN r.status = 0 /\ r.forwarded
                    ELSE r.status = 429 /\ ~r.forwarded

\* a burst of one token: the first request of a key is forwarded, the second
\* answered 429
WitBurstThen429 ==
    /\ CFPB_MCP_RATE_LIMIT_BURST = TokenUnit /\ CFPB_MCP_RATE_LIMIT_RPS > 0
    /\ Len(served) >= 2
    /\ served[1].bucket_id = s_k1 /\ served[2].bucket_id = s_k1
    /\ served[1].forwarded /\ served[2].status = 429

----------------------------------------------------------------------------
(* Specification of the rate limiter under threads: each caller of
   _rate_limit_allows reads the environment and the clock, then waits for
   _RATE_LIMIT_LOCK and runs the locked block without interruption.
   served holds the answered calls, each with the clock value it read
   (now) and the time of its answer (at). *)

Threads == 1..MaxCallers

\* (rps, burst) in token units: one token per tick and a burst of one, half
\* a token per tick and a burst of two, limiter off
RateEnvs == { <<2, 2>>, <<1, 4>>, <<0, 2>> }

BucketIds == {s_k1, s_k2}

Idle == [pc |-> "idle", bucket_id |-> <<>>, now |-> 0]

InitRate ==
    /\ phase = "calling"
    /\ today = Date(2025, 12, 20)
    /\ CFPB_MCP_API_KEYS = <<>>
    /\ \E r \in RateEnvs : CFPB_MCP_RATE_LIMIT_RPS = r[1] /\ CFPB_MCP_RATE_LIMIT_BURST = r[2]
    /\ clock = 0
    /\ _RATE_LIMIT_BUCKETS = <<>>
    /\ served = <<>>
    /\ callers = [t \in Threads |-> Idle]
    /\ LinkIdle /\ SigIdle /\ ExtIdle /\ RankIdle /\ PrmIdle

InFlight == Cardinality({t \in Threads : callers[t].pc = "lock"})

\* _rate_limit_allows(bucket_id) up to the lock: the environment is read,
\* and with the limiter on the clock is read before the lock is awaited
CallerReadsClock(t) ==
    /\ phase = "calling"
    /\ callers[t].pc = "idle"
    /\ Len(served) + InFlight < MaxCalls
    /\ \E id \in BucketIds :
          IF RateLimitOff(CFPB_MCP_RATE_LIMIT_RPS, CFPB_MCP_RATE_LIMIT_BURST)
          THEN /\ served' = Append(served, [bucket_id |-> id, ok |-> TRUE,
                                             now |-> clock, at |-> clock])
               /\ callers' = callers
          ELSE /\ callers' = [callers EXCEPT ![t] = [pc |-> "lock", bucket_id |-> id,
                                                      now |-> clock]]
               /\ served' = served
    /\ UNCHANGED <<phase, today, linkVars, sigVars, extVars, rankVars, prmVars,
                   CFPB_MCP_API_KEYS, CFPB_MCP_RATE_LIMIT_RPS, CFPB_MCP_RATE_LIMIT_BURST,
                   clock, _RATE_LIMIT_BUCKETS>>

\* the block under _RATE_LIMIT_LOCK, with the clock value read before
CallerConsumes(t) ==
    /\ phase = "calling"
    /\ callers[t].pc = "lock"
    /\ LET done == LockedConsume(_RATE_LIMIT_BUCKETS, callers[t].bucket_id, callers[t].now,
                                 CFPB_MCP_RATE_LIMIT_RPS, CFPB_MCP_RATE_LIMIT_BURST)
       IN  /\ _RATE_LIMIT_BUCKETS' = done.buckets
           /\ served' = Append(served, [bucket_id |-> callers[t].bucket_id,
                                        ok |-> done.ok, now |-> callers[t].now,
                                        at |-> clock])
    /\ callers' = [callers EXCEPT ![t] = Idle]
    /\ UNCHANGED <<phase, today, linkVars, sigVars, extVars, rankVars, prmVars,
                   CFPB_MCP_API_KEYS, CFPB_MCP_RATE_LIMIT_RPS, CFPB_MCP_RATE_LIMIT_BURST,
                   clock>>

NextRate == (\E t \in Threads : CallerReadsClock(t) \/ CallerConsumes(t)) \/ Tick

SpecRate == InitRate /\ [][NextRate]_vars

\* the calls for id admitted within t1..t2, by the time of the answer
AdmittedIn(id, t1, t2) ==
    {i \in 1..Len(served) : /\ served[i].bucket_id = id /\ served[i].ok
                            /\ t1 <= served[i].at /\ served[i].at <= t2}

\* the same, by the clock value the caller read
AdmittedInByReading(id, t1, t2) ==
    {i \in 1..Len(served) : /\ served[i].bucket_id = id /\ served[i].ok
                            /\ t1 <= served[i].now /\ served[i].now <= t2}

(* C29: under any interleaving of concurrent _rate_limit_allows calls for
   the same bucket id, exactly one _TokenBucket exists for that id, its
   tokens stay within [0, capacity], and the number of calls admitted
   during any interval of length T never exceeds capacity + refill_per_sec
   * T: no refill time is credited twice, although each caller reads the
   clock before taking the lock.  An admission is timed by its answer or
   by the clock value its caller read, whichever favours the bound. *)
AdmissionsBoundedUnderThreads ==
    (phase = "calling"
        /\ ~RateLimitOff(CFPB_MCP_RATE_LIMIT_RPS, CFPB_MCP_RATE_LIMIT_BURST)) =>
        /\ \A i, j \in 1..Len(_RATE_LIMIT_BUCKETS) :
              _RATE_LIMIT_BUCKETS[i].k = _RATE_LIMIT_BUCKETS[j].k => i = j
        /\ \A i \in 1..Len(served) : Has(_RATE_LIMIT_BUCKETS, served[i].bucket_id)
        /\ \A i \in 1..Len(_RATE_LIMIT_BUCKETS) :
              LET b == _RATE_LIMIT_BUCKETS[i].v
              IN  /\ 0 <= b.tokens /\ b.tokens <= b.capacity
                  /\ \/ \A t1 \in 0..clock, t2 \in 0..clock :
                           t1 <= t2 =>
                             Cardinality(AdmittedIn(_RATE_LIMIT_BUCKETS[i].k, t1, t2))
                                 * TokenUnit
                                 <= b.capacity + b.refill_per_sec * (t2 - t1)
                     \/ \A t1 \in 0..clock, t2 \in 0..clock :
                           t1 <= t2 =>
                             Cardinality(AdmittedInByReading(_RATE_LIMIT_BUCKETS[i].k, t1, t2))
                                 * TokenUnit
                                 <= b.capacity + b.refill_per_sec * (t2 - t1)

----------------------------------------------------------------------------
(* The baseline of the signal engine (SpecSignal) *)

(* C25: for every series of n points and every integer baseline_window, the
   baseline used by _compute_simple_signals is empty (baseline_mean and
   baseline_sd null) when n <= 2, and otherwise is exactly the
   min(baseline_window, n - 1) values immediately preceding the last point:
   it never contains the last point and never more than baseline_window
   values. *)
BaselineIsWindowBeforeLast ==
    (phase = "signals" /\ "signals" \in signals.keys) =>
        LET n == Len(points)
            values == [i \in 1..n |-> points[i].count]
            k == Min(baseline_window, n - 1)
            expected == IF n <= 2 \/ k <= 0 THEN <<>> ELSE SubSeq(values, n - k, n - 1)
        IN  IF expected = <<>>
            THEN signals.baseline_mean.null /\ signals.baseline_sd.null
            ELSE /\ signals.baseline_mean = _mean(expected)
                 /\ signals.baseline_sd = _stddev(expected)

----------------------------------------------------------------------------
(* The points of the overall series (SpecExtract) *)

\* the buckets handed to _extract_overall_points, when they are a list
OverallBuckets == AggBuckets(payload, "dateRangeArea", "dateRangeArea")

\* a bucket with a numeric key, a non-null label and a numeric count
UsableBucket(b) ==
    /\ b.t = "dict"
    /\ IsNumber(DictGet(b, "key", NoneV))
    /\ DictGet(b, "key_as_string", NoneV).t # "none"
    /\ IsNumber(DictGet(b, "doc_count", NoneV))

\* the numeric key of a bucket, in hundredths
KeyHundredths(b) ==
    LET key == DictGet(b, "key", NoneV)
    IN  IF key.t = "float" THEN key.n ELSE key.n * 100

OverallPointsReturned ==
    /\ phase = "extracted" /\ extracted.fn = "_extract_overall_points"
    /\ ~extracted.out.raised
    /\ OverallBuckets.t = "list"

(* C26: _extract_overall_points returns exactly one (label, count) pair for
   each bucket that has a numeric key, a non-null label and a numeric count,
   skips every other bucket, and returns the pairs in ascending order of the
   numeric key whatever the order of the buckets in the payload. *)
OverallPointsOnePerBucketAscending ==
    OverallPointsReturned =>
        LET bs == OverallBuckets.l
            usable == {i \in 1..Len(bs) : UsableBucket(bs[i])}
            out == extracted.out.val
        IN  /\ Len(out) = Cardinality(usable)
            /\ \E f \in [1..Len(out) -> usable] :
                  /\ \A i, j \in 1..Len(out) : i # j => f[i] # f[j]
                  /\ \A i \in 1..Len(out) :
                        out[i] = Point(PyStr(DictGet(bs[f[i]], "key_as_string", NoneV)),
                                       PyFloat(DictGet(bs[f[i]], "doc_count", NoneV)))
                  /\ \A i, j \in 1..Len(out) :
                        i < j => KeyHundredths(bs[f[i]]) <= KeyHundredths(bs[f[j]])

----------------------------------------------------------------------------
(* The size of a ranking (SpecRank) *)

RankingReturned(fn) ==
    phase = "ranked" /\ ranked.fn = fn /\ ~ranked.out.raised /\ top_n >= 0

\* every group ranked, none cut off
FullyRankedGroups ==
    rank_group_spikes(payload, "product", MaxGroups + 1, baseline_window,
                      min_baseline_mean, today).val

\* the companies of the search aggregation, as (company, doc_count) rows
SearchCompanies == _company_buckets_from_search(payload).val

IsErrorRow(row) == "error" \in row.computed.keys

(* C27: for every top_n >= 0, rank_group_spikes and rank_company_spikes each
   return at most top_n result rows; rank_group_spikes returns the first
   top_n rows of the fully ranked list of groups and never a
   not_enough_points error row, while rank_company_spikes returns one row
   for each of the top_n highest-volume companies, error rows included. *)
AtMostTopNRows ==
    /\ RankingReturned("rank_group_spikes") =>
          LET out == ranked.out.val
              full == FullyRankedGroups
          IN  /\ Len(out) <= top_n
              /\ out = SubSeq(full, 1, Min(top_n, Len(full)))
              /\ \A i \in 1..Len(out) : ~IsErrorRow(out[i])
              /\ \A i, j \in 1..Len(out) : i < j => ~RankKeyGreater(out[j], out[i])
    /\ RankingReturned("rank_company_spikes") =>
          LET out == ranked.out.val
              all == SearchCompanies
              chosen == {i \in 1..Len(all) : \E r \in 1..Len(out) : out[r].name = all[i].company}
          IN  /\ Len(out) <= top_n
              /\ Len(out) = Min(top_n, Len(all))
              /\ Cardinality(chosen) = Len(out)
              /\ \A i \in chosen :
                    \E r \in 1..Len(out) :
                        out[r].name = all[i].company /\ out[r].doc_count = IntV(all[i].doc_count)
              /\ \A i \in chosen, j \in (1..Len(all)) \ chosen :
                    all[i].doc_count >= all[j].doc_count

\* three groups ranked and cut to two; three companies cut to the two of
\* highest volume, one of them with an error row
WitTopNCuts ==
    /\ top_n = 2
    /\ \/ /\ RankingReturned("rank_group_spikes")
          /\ Len(FullyRankedGroups) = 3
          /\ Len(ranked.out.val) = 2
          /\ ranked.out.val[1].name # RankName(1)
       \/ /\ RankingReturned("rank_company_spikes")
          /\ Len(SearchCompanies) = 3
          /\ Len(ranked.out.val) = 2
          /\ \E r \in 1..2 : IsErrorRow(ranked.out.val[r])

----------------------------------------------------------------------------
(* The date range of a deep link (SpecLink) *)

(* C28: every URL returned by build_deeplink_url carries both a
   date_received_min and a date_received_max query parameter, whatever
   parameter mapping is passed (caller-supplied dates are kept, absent ones
   are defaulted), so a generated deep link never relies on the dashboard's
   own default date range. *)
DeepLinkCarriesBothDates ==
    phase = "link" =>
        /\ "date_received_min" \in QueryKeys(url)
        /\ "date_received_max" \in QueryKeys(url)

----------------------------------------------------------------------------
(* The two parameter cleaners (SpecPrune) *)

(* C30: the two parameter-cleaning implementations agree: for every
   parameter mapping that has none of the keys trend_interval, lens,
   sub_lens (values being scalars, strings, booleans, or lists of these,
   including nested lists), prune_params and normalize_api_params return
   the same mapping. *)
CleanersAgree ==
    (/\ phase = "pruned and normalized"
     /\ Keys(params) \cap {"trend_interval", "lens", "sub_lens"} = {})
        => prune_result = norm_result

====
